---- MODULE Spec2Model ----
(***************************************************************************)
(* The text-buffer engine of the Pound editor: rows with raw content,      *)
(* tab-expanded render and highlight tags, the incremental highlighter     *)
(* with its multiline-comment cascade, the editing operations, the cursor  *)
(* and viewport, and the incremental search.                               *)
(*                                                                         *)
(* A string is a sequence of one-character strings.  The source indexes    *)
(* from 0; Seq values index from 1, so position i of the source is         *)
(* element i + 1 here.                                                     *)
(***************************************************************************)
EXTENDS Integers, Sequences, FiniteSets, TLC

VARIABLES
    row_contents,       \* EditorRows.row_contents: the rows, in line order
    filename,           \* EditorRows.filename: NoName or a path
    edit_mode,          \* EditorRows.edit_mode: "NORMAL" or "READONLY"
    file_type,          \* EditorRows.file_type: "FILE" or "DIR"
    syntax_highlight,   \* Output.syntax_highlight: "None" or "Rust"
    dirty,              \* Output.dirty
    status_message,     \* Output.status_message
    cursor_controller,  \* Output.cursor_controller
    search_index,       \* Output.search_index
    mode,               \* the loop blocked in read_key: "edit", "find", or "load"
    input,              \* prompt_callback's input string while mode = "find"
    find_cursor,        \* find()'s saved copy of cursor_controller
    find_highlight,     \* every row's tags when find() was entered
    pending,            \* from_file: the lines of the file not yet read
    key,                \* the last key event handled, and the branch it took
    crashed,            \* the process has panicked
    disk                \* the file EditorRows::save wrote last, and what it returned

vars == <<row_contents, filename, edit_mode, file_type, syntax_highlight, dirty,
          status_message, cursor_controller, search_index, mode, input,
          find_cursor, find_highlight, pending, key, crashed, disk>>

-----------------------------------------------------------------------------
(* Program constants *)

TAB_STOP == 8

NoName == "None"
NoString == "None"

\* No file written yet, and no call of EditorRows::save made
NoDisk == [name |-> NoName, contents |-> <<>>, result |-> "None", len |-> 0]

comment_start == <<"/", "/">>
multiline_comment == [start |-> <<"/", "*">>, end |-> <<"*", "/">>]

Yellow == "Other(Yellow)"
Magenta == "Other(Magenta)"

\* The keyword groups of RustHighlight, in the order the macro expands them.
keywords ==
    << [color |-> Yellow, word |-> <<"m","o","d">>],
       [color |-> Yellow, word |-> <<"u","n","s","a","f","e">>],
       [color |-> Yellow, word |-> <<"e","x","t","e","r","n">>],
       [color |-> Yellow, word |-> <<"c","r","a","t","e">>],
       [color |-> Yellow, word |-> <<"u","s","e">>],
       [color |-> Yellow, word |-> <<"t","y","p","e">>],
       [color |-> Yellow, word |-> <<"s","t","r","u","c","t">>],
       [color |-> Yellow, word |-> <<"e","n","u","m">>],
       [color |-> Yellow, word |-> <<"u","n","i","o","n">>],
       [color |-> Yellow, word |-> <<"c","o","n","s","t">>],
       [color |-> Yellow, word |-> <<"s","t","a","t","i","c">>],
       [color |-> Yellow, word |-> <<"m","u","t">>],
       [color |-> Yellow, word |-> <<"l","e","t">>],
       [color |-> Yellow, word |-> <<"i","f">>],
       [color |-> Yellow, word |-> <<"e","l","s","e">>],
       [color |-> Yellow, word |-> <<"i","m","p","l">>],
       [color |-> Yellow, word |-> <<"t","r","a","i","t">>],
       [color |-> Yellow, word |-> <<"f","o","r">>],
       [color |-> Yellow, word |-> <<"f","n">>],
       [color |-> Yellow, word |-> <<"s","e","l","f">>],
       [color |-> Yellow, word |-> <<"S","e","l","f">>],
       [color |-> Yellow, word |-> <<"w","h","i","l","e">>],
       [color |-> Yellow, word |-> <<"t","r","u","e">>],
       [color |-> Yellow, word |-> <<"f","a","l","s","e">>],
       [color |-> Yellow, word |-> <<"i","n">>],
       [color |-> Yellow, word |-> <<"c","o","n","t","i","n","u","e">>],
       [color |-> Yellow, word |-> <<"b","r","e","a","k">>],
       [color |-> Yellow, word |-> <<"l","o","o","p">>],
       [color |-> Yellow, word |-> <<"m","a","t","c","h">>],
       [color |-> Magenta, word |-> <<"i","s","i","z","e">>],
       [color |-> Magenta, word |-> <<"i","8">>],
       [color |-> Magenta, word |-> <<"i","1","6">>],
       [color |-> Magenta, word |-> <<"i","3","2">>],
       [color |-> Magenta, word |-> <<"i","6","4">>],
       [color |-> Magenta, word |-> <<"u","s","i","z","e">>],
       [color |-> Magenta, word |-> <<"u","8">>],
       [color |-> Magenta, word |-> <<"u","1","6">>],
       [color |-> Magenta, word |-> <<"u","3","2">>],
       [color |-> Magenta, word |-> <<"u","6","4">>],
       [color |-> Magenta, word |-> <<"f","3","2">>],
       [color |-> Magenta, word |-> <<"f","6","4">>],
       [color |-> Magenta, word |-> <<"c","h","a","r">>],
       [color |-> Magenta, word |-> <<"s","t","r">>],
       [color |-> Magenta, word |-> <<"b","o","o","l">>] >>

-----------------------------------------------------------------------------
(* Strings and slices, with the source's 0-based positions *)

Min(a, b) == IF a < b THEN a ELSE b
Max(a, b) == IF a > b THEN a ELSE b

\* s[a..b) of the source
Slice(s, a, b) == SubSeq(s, a + 1, b)

Repeat(x, n) == [k \in 1..n |-> x]

\* rows.insert(at, row)
InsertAt(s, at, x) == SubSeq(s, 1, at) \o <<x>> \o SubSeq(s, at + 1, Len(s))

\* rows.remove(at)
RemoveAt(s, at) == SubSeq(s, 1, at) \o SubSeq(s, at + 2, Len(s))

\* All sequences over S of length 0..n
SeqsUpTo(S, n) == UNION {[1..k -> S] : k \in 0..n}

-----------------------------------------------------------------------------
(* Row and the render mapping *)

\* Row::new
\* A String is the sequence of its UTF-8 bytes.  A character of one byte is
\* written as itself; TwoByteChar is a character of two bytes (U+00E9),
\* LeadByte followed by ContinuationByte.
TwoByteChar == "U+00E9"
LeadByte == "0xC3"
ContinuationByte == "0xA9"

\* char::encode_utf8, as String::insert and String::push use it
encode_utf8(ch) == IF ch = TwoByteChar THEN <<LeadByte, ContinuationByte>> ELSE <<ch>>

\* str::is_char_boundary
is_char_boundary(s, index) ==
    \/ index = 0
    \/ index = Len(s)
    \/ index < Len(s) /\ s[index + 1] # ContinuationByte

\* str::chars, from the k-th byte on
RECURSIVE chars_from(_, _)
chars_from(s, k) ==
    IF k > Len(s) THEN <<>>
    ELSE IF s[k] = LeadByte /\ k < Len(s)
         THEN <<TwoByteChar>> \o chars_from(s, k + 2)
         ELSE <<s[k]>> \o chars_from(s, k + 1)

str_chars(s) == chars_from(s, 1)

\* The bytes of a String built by pushing the characters cs
RECURSIVE push_all(_, _)
push_all(cs, k) ==
    IF k > Len(cs) THEN <<>> ELSE encode_utf8(cs[k]) \o push_all(cs, k + 1)

Row_new(row_content, render) ==
    [row_content |-> row_content, render |-> render,
     highlight |-> <<>>, is_comment |-> FALSE]

\* The for_each of render_row: k characters consumed, index is the counter
\* the source increments for every character and for every padding space.
RECURSIVE render_chars(_, _, _, _)
render_chars(row_content, k, index, render) ==
    IF k >= Len(row_content) THEN render
    ELSE LET c == row_content[k + 1]
             idx == index + 1
         IN IF c = "\t"
            THEN LET pad == (TAB_STOP - (idx % TAB_STOP)) % TAB_STOP
                 IN render_chars(row_content, k + 1, idx + pad,
                                 render \o Repeat(" ", 1 + pad))
            ELSE render_chars(row_content, k + 1, idx, Append(render, c))

\* EditorRows::render_row
render_row(row) ==
    [row EXCEPT !.render = push_all(render_chars(str_chars(row.row_content), 0, 0, <<>>), 1)]

\* The character inserted and the rendering left as it was
Row_insert_char_unrendered(row, at, ch) ==
    [row EXCEPT !.row_content = SubSeq(@, 1, at) \o encode_utf8(ch) \o SubSeq(@, at + 1, Len(@))]

\* Row::insert_char
Row_insert_char(row, at, ch) ==
    render_row([row EXCEPT !.row_content =
                    SubSeq(@, 1, at) \o encode_utf8(ch) \o SubSeq(@, at + 1, Len(@))])

\* Row::delete_char
Row_delete_char(row, at) ==
    LET next == IF row.row_content[at + 1] = LeadByte THEN at + 2 ELSE at + 1
    IN render_row([row EXCEPT !.row_content =
                       SubSeq(@, 1, at) \o SubSeq(@, next + 1, Len(@))])

\* The fold step of get_render_x
render_x_step(render_x, c) ==
    IF c = "\t" THEN render_x + (TAB_STOP - 1) - (render_x % TAB_STOP) + 1
    ELSE render_x + 1

RECURSIVE fold_render_x(_, _, _)
fold_render_x(chars, k, render_x) ==
    IF k >= Len(chars) THEN render_x
    ELSE fold_render_x(chars, k + 1, render_x_step(render_x, chars[k + 1]))

\* CursorController::get_render_x, for a controller whose cursor_x is cursor_x
get_render_x(cursor_x, row) ==
    LET cs == str_chars(row.row_content)
    IN fold_render_x(SubSeq(cs, 1, Min(cursor_x, Len(cs))), 0, 0)

\* The test that ends the loop of get_row_content_x
\* The test of the loop with >= for >
content_x_found_at(current_render_x, render_x) == current_render_x >= render_x

content_x_found(current_render_x, render_x) == current_render_x > render_x

RECURSIVE content_x_from(_, _, _, _)
content_x_from(row_content, cursor_x, current_render_x, render_x) ==
    IF cursor_x >= Len(row_content) THEN 0
    ELSE LET ch == row_content[cursor_x + 1]
             tabbed == IF ch = "\t"
                       THEN current_render_x + (TAB_STOP - 1) - (current_render_x % TAB_STOP)
                       ELSE current_render_x
             next == tabbed + 1
         IN IF content_x_found(next, render_x) THEN cursor_x
            ELSE content_x_from(row_content, cursor_x + 1, next, render_x)

\* Row::get_row_content_x
get_row_content_x(row, render_x) == content_x_from(str_chars(row.row_content), 0, 0, render_x)

-----------------------------------------------------------------------------
(* The highlighter: one scan of a row, and update_syntax with its cascade *)

\* SyntaxHighlight::is_separator (char::is_whitespace on the ASCII range)
is_separator(c) ==
    \/ c \in {" ", "\t"}
    \/ c \in {",", ".", "[", "]", "(", ")", "+", "-", "/", "*", "=", "~", "%",
              "<", ">", "\"", "'", ";", "&"}

is_digit(c) == c \in {"0", "1", "2", "3", "4", "5", "6", "7", "8", "9"}

\* render[i..min(i + token.len(), render.len())] == *token
token_at(render, i, token) ==
    Slice(render, i, Min(i + Len(token), Len(render))) = token

\* A string opened by quote is tagged String for '"' and CharLiteral for '\''
string_tag(quote) == IF quote = "\"" THEN "String" ELSE "CharLiteral"

\* The test of one keyword without the look at the character at its end
keyword_matches_prefix(render, i, word) ==
    LET end == i + Len(word)
    IN end <= Len(render) /\ Slice(render, i, end) = word

\* The test of one keyword at position i: the character at its end is a
\* separator, or its end is the end of the row, and the text equals it.
keyword_matches(render, i, word) ==
    LET end == i + Len(word)
        is_end_or_sep == IF end < Len(render) THEN is_separator(render[end + 1])
                         ELSE end = Len(render)
    IN is_end_or_sep /\ Slice(render, i, end) = word

\* The first keyword of the table that matches at i, as its index, or 0
keyword_at(render, i) ==
    LET hits == {k \in 1..Len(keywords) : keyword_matches(render, i, keywords[k].word)}
    IN IF hits = {} THEN 0 ELSE CHOOSE k \in hits : \A j \in hits : k <= j

\* The digit and decimal-point test of a Number tag
number_at(c, previous_separator, previous_highlight) ==
    \/ is_digit(c) /\ (previous_separator \/ previous_highlight = "Number")
    \/ c = "." /\ previous_highlight = "Number"

\* The single-line comment test without the look at in_string
line_comment_at_in_string(render, i, in_string, in_comment) ==
    /\ comment_start # <<>>
    /\ ~in_comment
    /\ token_at(render, i, comment_start)

\* The single-line comment test at the top of the loop
line_comment_at(render, i, in_string, in_comment) ==
    /\ in_string = NoString
    /\ comment_start # <<>>
    /\ ~in_comment
    /\ token_at(render, i, comment_start)

\* The end-token test made at every position inside a multiline comment
multiline_end_at(render, i) == token_at(render, i, multiline_comment.end)

\* The start-token test made at every position outside one
multiline_start_at(render, i) == token_at(render, i, multiline_comment.start)

\* The while loop of update_syntax from position i on; the result is the
\* row's highlight and the in_comment the loop ends with.
RECURSIVE scan_row(_, _, _, _, _, _)
scan_row(render, i, highlight, in_comment, in_string, previous_separator) ==
    IF i >= Len(render) THEN [highlight |-> highlight, in_comment |-> in_comment]
    ELSE
    LET c == render[i + 1]
        previous_highlight == IF i > 0 THEN highlight[i] ELSE "Normal"
    IN
    IF line_comment_at(render, i, in_string, in_comment)
    THEN [highlight |-> highlight \o Repeat("Comment", Len(render) - i),
          in_comment |-> in_comment]
    ELSE IF in_string = NoString /\ in_comment
    THEN IF multiline_end_at(render, i)
         THEN scan_row(render, i + Len(multiline_comment.end),
                       highlight \o <<"MultilineComment">>
                                 \o Repeat("MultilineComment",
                                           Max(Len(multiline_comment.end) - 1, 0)),
                       FALSE, in_string, TRUE)
         ELSE scan_row(render, i + 1, Append(highlight, "MultilineComment"),
                       in_comment, in_string, previous_separator)
    ELSE IF in_string = NoString /\ multiline_start_at(render, i)
    THEN scan_row(render, i + Len(multiline_comment.start),
                  highlight \o Repeat("MultilineComment", Len(multiline_comment.start)),
                  TRUE, in_string, previous_separator)
    ELSE IF in_string # NoString
    THEN IF c = "\\" /\ i + 1 < Len(render)
         THEN scan_row(render, i + 2,
                       highlight \o <<string_tag(in_string), string_tag(in_string)>>,
                       in_comment, in_string, previous_separator)
         ELSE scan_row(render, i + 1, Append(highlight, string_tag(in_string)),
                       in_comment, IF in_string = c THEN NoString ELSE in_string, TRUE)
    ELSE IF c = "\"" \/ c = "'"
    THEN scan_row(render, i + 1, Append(highlight, string_tag(c)),
                  in_comment, c, previous_separator)
    ELSE IF number_at(c, previous_separator, previous_highlight)
    THEN scan_row(render, i + 1, Append(highlight, "Number"),
                  in_comment, in_string, FALSE)
    ELSE IF previous_separator /\ keyword_at(render, i) # 0
    THEN LET kw == keywords[keyword_at(render, i)]
         IN scan_row(render, i + Len(kw.word),
                     highlight \o Repeat(kw.color, Len(kw.word)),
                     in_comment, in_string, FALSE)
    ELSE scan_row(render, i + 1, Append(highlight, "Normal"),
                  in_comment, in_string, is_separator(c))

\* The flag is read from the row itself, not from the row before it
initial_in_comment_own_row(at, editor_rows) == at > 0 /\ editor_rows[at + 1].is_comment

\* in_comment taken from the row above from the third row on only
initial_in_comment_off_by_one(at, editor_rows) == at > 1 /\ editor_rows[at].is_comment

\* let mut in_comment = at > 0 && editor_rows[at - 1].is_comment
initial_in_comment(at, editor_rows) == at > 0 /\ editor_rows[at].is_comment

\* The cascade stops one row short of the last row
cascade_short(changed, at, editor_rows) == changed /\ at + 2 < Len(editor_rows)

\* The cascade goes on whether or not the flag changed
cascade_always(changed, at, editor_rows) == at + 1 < Len(editor_rows)

\* The test that sends update_syntax on to the next row
cascade(changed, at, editor_rows) == changed /\ at + 1 < Len(editor_rows)

\* update_syntax with the list of the rows it scanned: each entry is the row
\* index and whether that scan changed the row's is_comment.
RECURSIVE update_syntax_from(_, _, _)
update_syntax_from(at, editor_rows, scanned) ==
    LET current_row == editor_rows[at + 1]
        scan == scan_row(current_row.render, 0, <<>>,
                         initial_in_comment(at, editor_rows), NoString, TRUE)
        changed == current_row.is_comment # scan.in_comment
        rows == [editor_rows EXCEPT ![at + 1] =
                    [@ EXCEPT !.highlight = scan.highlight,
                              !.is_comment = scan.in_comment]]
        log == Append(scanned, [at |-> at, changed |-> changed])
    IN IF cascade(changed, at, rows) THEN update_syntax_from(at + 1, rows, log)
       ELSE [rows |-> rows, scanned |-> log]

\* SyntaxHighlight::update_syntax
update_syntax(at, editor_rows) == update_syntax_from(at, editor_rows, <<>>).rows

\* if let Some(it) = syntax_highlight { it.update_syntax(at, rows) }
highlight_if_some(syntax, at, editor_rows) ==
    IF syntax = "None" THEN editor_rows ELSE update_syntax(at, editor_rows)

-----------------------------------------------------------------------------
(* Bounds of the model *)

\* The viewport: Output.win_size, CursorController.screen_rows/screen_columns
ScreenRows == 2
ScreenCols == 3

\* Spec: the files the editor is opened on, and the edits made to them
InitRows == 3
MaxDirty == 1
\* Moves are followed up to this cursor row (Down on a buffer with no rows,
\* built without overflow checks, increments cursor_y without limit)
MaxCursorY == 4

EditChars == {"/", "*", "a"}

-----------------------------------------------------------------------------
(* Populating the buffer *)

\* The for_each body of EditorRows::from_file for one line of the file
from_file_line(rows, line, syntax) ==
    LET pushed == Append(rows, render_row(Row_new(line, <<>>)))
    IN highlight_if_some(syntax, Len(rows), pushed)

RECURSIVE from_file_lines(_, _, _)
from_file_lines(rows, lines, syntax) ==
    IF lines = <<>> THEN rows
    ELSE from_file_lines(from_file_line(rows, Head(lines), syntax), Tail(lines), syntax)

\* Output::select_syntax on the extension of the path
select_syntax(path) == IF path = "f.rs" THEN "Rust" ELSE "None"

\* The rows open_file builds for a directory: one per entry, rendered only
dir_rows(entries) == [k \in 1..Len(entries) |-> render_row(Row_new(entries[k], <<>>))]

\* CursorController::new
CursorController_new ==
    [cursor_x |-> 0, cursor_y |-> 0, row_offset |-> 0, column_offset |-> 0,
     render_x |-> 0]

\* SearchIndex::new and SearchIndex::reset
SearchIndex_new ==
    [x_index |-> 0, y_index |-> 0, x_direction |-> "None", y_direction |-> "None",
     previous_highlight |-> <<>>]

-----------------------------------------------------------------------------
(* Cursor and viewport *)

\* scroll with the cursor put on the first line and column of a moved window
scroll_to_top(cc, rows) ==
    LET render_x == IF cc.cursor_y < Len(rows)
                    THEN get_render_x(cc.cursor_x, rows[cc.cursor_y + 1])
                    ELSE 0
        off1 == Min(cc.row_offset, cc.cursor_y)
        row_offset == IF cc.cursor_y >= off1 + ScreenRows
                      THEN cc.cursor_y ELSE off1
        col1 == Min(cc.column_offset, render_x)
        column_offset == IF render_x >= col1 + ScreenCols
                         THEN render_x ELSE col1
    IN [cc EXCEPT !.render_x = render_x, !.row_offset = row_offset,
                  !.column_offset = column_offset]

\* scroll without the two min(): an offset is only ever raised
scroll_raising(cc, rows) ==
    LET render_x == IF cc.cursor_y < Len(rows)
                    THEN get_render_x(cc.cursor_x, rows[cc.cursor_y + 1])
                    ELSE 0
        row_offset == IF cc.cursor_y >= cc.row_offset + ScreenRows
                      THEN cc.cursor_y - ScreenRows + 1 ELSE cc.row_offset
        column_offset == IF render_x >= cc.column_offset + ScreenCols
                         THEN render_x - ScreenCols + 1 ELSE cc.column_offset
    IN [cc EXCEPT !.render_x = render_x, !.row_offset = row_offset,
                  !.column_offset = column_offset]

\* CursorController::scroll
scroll(cc, rows) ==
    LET render_x == IF cc.cursor_y < Len(rows)
                    THEN get_render_x(cc.cursor_x, rows[cc.cursor_y + 1])
                    ELSE 0
        off1 == Min(cc.row_offset, cc.cursor_y)
        row_offset == IF cc.cursor_y >= off1 + ScreenRows
                      THEN cc.cursor_y - ScreenRows + 1 ELSE off1
        col1 == Min(cc.column_offset, render_x)
        column_offset == IF render_x >= col1 + ScreenCols
                         THEN render_x - ScreenCols + 1 ELSE col1
    IN [cc EXCEPT !.render_x = render_x, !.row_offset = row_offset,
                  !.column_offset = column_offset]

\* The clamp that ends move_cursor
clamp_cursor_x(cc, rows) ==
    LET row_len == IF cc.cursor_y < Len(rows)
                   THEN Len(rows[cc.cursor_y + 1].row_content) ELSE 0
    IN [cc EXCEPT !.cursor_x = Min(cc.cursor_x, row_len)]

\* CursorController::move_cursor.  The result is the controller and whether
\* the call panicked.  number_of_rows - 1 underflows on a buffer with no rows:
\* with overflow checks the call panics, without them the value wraps to
\* usize::MAX, which every cursor_y of the model is below.
move_cursor(cc, direction, rows, overflow_checks) ==
    LET number_of_rows == Len(rows)
        ok(c) == [panic |-> FALSE, cc |-> clamp_cursor_x(c, rows)]
        panicked == [panic |-> TRUE, cc |-> cc]
    IN CASE direction = "Up" ->
              ok([cc EXCEPT !.cursor_y = Max(cc.cursor_y - 1, 0)])
         [] direction = "Left" ->
              IF cc.cursor_x # 0 THEN ok([cc EXCEPT !.cursor_x = cc.cursor_x - 1])
              ELSE IF cc.cursor_y > 0
              THEN IF cc.cursor_y - 1 >= number_of_rows THEN panicked
                   ELSE ok([cc EXCEPT !.cursor_y = cc.cursor_y - 1,
                                      !.cursor_x = Len(rows[cc.cursor_y].row_content)])
              ELSE ok(cc)
         [] direction = "Down" ->
              IF number_of_rows = 0
              THEN IF overflow_checks THEN panicked
                   ELSE ok([cc EXCEPT !.cursor_y = cc.cursor_y + 1])
              ELSE IF cc.cursor_y < number_of_rows - 1
              THEN ok([cc EXCEPT !.cursor_y = cc.cursor_y + 1])
              ELSE ok(cc)
         [] direction = "Right" ->
              IF cc.cursor_y >= number_of_rows THEN panicked
              ELSE LET len == Len(rows[cc.cursor_y + 1].row_content)
                   IN IF cc.cursor_x < len THEN ok([cc EXCEPT !.cursor_x = cc.cursor_x + 1])
                      ELSE IF cc.cursor_x = len /\ cc.cursor_y < number_of_rows - 1
                      THEN ok([cc EXCEPT !.cursor_y = cc.cursor_y + 1, !.cursor_x = 0])
                      ELSE ok(cc)
         [] direction = "End" ->
              IF cc.cursor_y < number_of_rows
              THEN ok([cc EXCEPT !.cursor_x = Len(rows[cc.cursor_y + 1].row_content)])
              ELSE ok(cc)
         [] direction = "Home" -> ok([cc EXCEPT !.cursor_x = 0])

\* (0..win_size.1).for_each(|_| move_cursor(direction)), n calls left
RECURSIVE move_cursor_times(_, _, _, _, _)
move_cursor_times(n, cc, direction, rows, overflow_checks) ==
    IF n = 0 THEN [panic |-> FALSE, cc |-> cc]
    ELSE LET m == move_cursor(cc, direction, rows, overflow_checks)
         IN IF m.panic THEN m
            ELSE move_cursor_times(n - 1, m.cc, direction, rows, overflow_checks)

\* The PageUp | PageDown branch of process_keypress.  win_size.1 is the
\* screen_rows of the controller.  number_of_rows() - 1 underflows on a
\* buffer with no rows, as in move_cursor.
page_move(cc, val, rows, overflow_checks) ==
    IF val = "PageUp"
    THEN move_cursor_times(ScreenRows, [cc EXCEPT !.cursor_y = cc.row_offset],
                           "Up", rows, overflow_checks)
    ELSE IF Len(rows) = 0 /\ overflow_checks THEN [panic |-> TRUE, cc |-> cc]
    ELSE LET last == IF Len(rows) = 0 THEN ScreenRows + cc.row_offset - 1
                     ELSE Min(ScreenRows + cc.row_offset - 1, Len(rows) - 1)
         IN move_cursor_times(ScreenRows, [cc EXCEPT !.cursor_y = last],
                              "Down", rows, overflow_checks)

-----------------------------------------------------------------------------
(* The editing operations of Output.  Each takes and returns the part of    *)
(* Output it works on: rows, cc (the cursor controller), dirty, status,     *)
(* and panic, set when the call panicked.                                   *)

ReadonlyMessage == "Failed to edit readonly buffer"

\* EditorRows::insert_row
insert_row(rows, at, contents) == InsertAt(rows, at, render_row(Row_new(contents, <<>>)))

\* The row at removed and its content not pushed to the row above
join_adjacent_rows_dropping(rows, at) ==
    LET removed == RemoveAt(rows, at)
    IN [removed EXCEPT ![at] = render_row(@)]

\* EditorRows::join_adjacent_rows
join_adjacent_rows(rows, at) ==
    LET current_row == rows[at + 1]
        removed == RemoveAt(rows, at)
    IN [removed EXCEPT ![at] =
           render_row([@ EXCEPT !.row_content = @ \o current_row.row_content])]

\* Output::delete_char
delete_char(o) ==
    LET cc == o.cc
    IN IF edit_mode = "READONLY" THEN [o EXCEPT !.status = ReadonlyMessage]
       ELSE IF cc.cursor_y = Len(o.rows) THEN o
       ELSE IF cc.cursor_y = 0 /\ cc.cursor_x = 0 THEN o
       ELSE IF cc.cursor_y > Len(o.rows) THEN [o EXCEPT !.panic = TRUE]
       ELSE IF cc.cursor_x > 0
               /\ ~is_char_boundary(o.rows[cc.cursor_y + 1].row_content, cc.cursor_x - 1)
       THEN [o EXCEPT !.panic = TRUE]
       ELSE LET edited ==
                  IF cc.cursor_x > 0
                  THEN [rows |-> [o.rows EXCEPT ![cc.cursor_y + 1] =
                                     Row_delete_char(@, cc.cursor_x - 1)],
                        cc |-> [cc EXCEPT !.cursor_x = cc.cursor_x - 1]]
                  ELSE [rows |-> join_adjacent_rows(o.rows, cc.cursor_y),
                        cc |-> [cc EXCEPT !.cursor_x = Len(o.rows[cc.cursor_y].row_content),
                                          !.cursor_y = cc.cursor_y - 1]]
            IN [o EXCEPT !.rows = highlight_if_some(syntax_highlight,
                                      edited.cc.cursor_y, edited.rows),
                         !.cc = edited.cc,
                         !.dirty = o.dirty + 1]

\* The re-highlighting insert_newline does after it split the cursor row
newline_split_update(syntax, cursor_y, rows) ==
    highlight_if_some(syntax, cursor_y + 1, highlight_if_some(syntax, cursor_y, rows))

\* Output::insert_newline
insert_newline(o) ==
    LET cc == o.cc
    IN IF edit_mode = "READONLY" THEN [o EXCEPT !.status = ReadonlyMessage]
       ELSE IF cc.cursor_y > Len(o.rows) \/ (cc.cursor_x # 0 /\ cc.cursor_y >= Len(o.rows))
       THEN [o EXCEPT !.panic = TRUE]
       ELSE IF cc.cursor_x # 0
               /\ ~is_char_boundary(o.rows[cc.cursor_y + 1].row_content, cc.cursor_x)
       THEN [o EXCEPT !.panic = TRUE]
       ELSE LET rows ==
                  IF cc.cursor_x = 0
                  THEN insert_row(o.rows, cc.cursor_y, <<>>)
                  ELSE LET current_row == o.rows[cc.cursor_y + 1]
                           new_row_content == Slice(current_row.row_content, cc.cursor_x,
                                                    Len(current_row.row_content))
                           truncated == [o.rows EXCEPT ![cc.cursor_y + 1] =
                                            render_row([@ EXCEPT !.row_content =
                                                Slice(@, 0, cc.cursor_x)])]
                       IN newline_split_update(syntax_highlight, cc.cursor_y,
                              insert_row(truncated, cc.cursor_y + 1, new_row_content))
            IN [o EXCEPT !.rows = rows,
                         !.cc = [cc EXCEPT !.cursor_x = 0, !.cursor_y = cc.cursor_y + 1],
                         !.dirty = o.dirty + 1]

\* insert_char without the test of edit_mode
insert_char_any_mode(o, ch) ==
    LET cc == o.cc
    IN IF cc.cursor_y > Len(o.rows) THEN [o EXCEPT !.panic = TRUE]
       ELSE IF cc.cursor_y < Len(o.rows)
               /\ ~is_char_boundary(o.rows[cc.cursor_y + 1].row_content, cc.cursor_x)
       THEN [o EXCEPT !.panic = TRUE]
       ELSE LET appended == cc.cursor_y = Len(o.rows)
                rows0 == IF appended THEN insert_row(o.rows, Len(o.rows), <<>>) ELSE o.rows
                rows1 == [rows0 EXCEPT ![cc.cursor_y + 1] = Row_insert_char(@, cc.cursor_x, ch)]
            IN [o EXCEPT !.rows = highlight_if_some(syntax_highlight, cc.cursor_y, rows1),
                         !.cc = [cc EXCEPT !.cursor_x = cc.cursor_x + 1],
                         !.dirty = o.dirty + (IF appended THEN 2 ELSE 1)]

\* Output::insert_char
insert_char(o, ch) ==
    LET cc == o.cc
    IN IF edit_mode = "READONLY" THEN [o EXCEPT !.status = ReadonlyMessage]
       ELSE IF cc.cursor_y > Len(o.rows) THEN [o EXCEPT !.panic = TRUE]
       ELSE IF cc.cursor_y < Len(o.rows)
               /\ ~is_char_boundary(o.rows[cc.cursor_y + 1].row_content, cc.cursor_x)
       THEN [o EXCEPT !.panic = TRUE]
       ELSE LET appended == cc.cursor_y = Len(o.rows)
                rows0 == IF appended THEN insert_row(o.rows, Len(o.rows), <<>>) ELSE o.rows
                rows1 == [rows0 EXCEPT ![cc.cursor_y + 1] = Row_insert_char(@, cc.cursor_x, ch)]
            IN [o EXCEPT !.rows = highlight_if_some(syntax_highlight, cc.cursor_y, rows1),
                         !.cc = [cc EXCEPT !.cursor_x = cc.cursor_x + 1],
                         !.dirty = o.dirty + (IF appended THEN 2 ELSE 1)]

-----------------------------------------------------------------------------
(* The editor as a state machine.  A state is the editor blocked in         *)
(* read_key; an action is one key event handled by process_keypress (or by  *)
(* the prompt loop), followed by the refresh_screen of the next cycle,      *)
(* whose scroll() recomputes the viewport.                                  *)

Directions == {"Up", "Down", "Left", "Right", "Home", "End"}

\* The part of Output the editing operations work on, as it is now
Cur == [rows |-> row_contents, cc |-> cursor_controller, dirty |-> dirty,
        status |-> status_message, panic |-> FALSE]

\* Store the outcome o of handling the key event k, then refresh_screen
Handled(o, k) ==
    /\ IF o.panic
       THEN /\ crashed' = TRUE
            /\ UNCHANGED <<row_contents, cursor_controller, dirty, status_message>>
       ELSE /\ crashed' = FALSE
            /\ row_contents' = o.rows
            /\ cursor_controller' = scroll(o.cc, o.rows)
            /\ dirty' = o.dirty
            /\ status_message' = o.status
    /\ key' = k
    /\ UNCHANGED <<filename, edit_mode, file_type, syntax_highlight, search_index,
                   mode, input, find_cursor, find_highlight, pending, disk>>

Editing == mode = "edit" /\ ~crashed

\* Up, Down, Left, Right, Home, End
KeyMove(direction) ==
    /\ Editing
    /\ cursor_controller.cursor_y <= MaxCursorY
    /\ \E overflow_checks \in BOOLEAN :
          LET m == move_cursor(cursor_controller, direction, row_contents, overflow_checks)
          IN Handled([Cur EXCEPT !.cc = m.cc, !.panic = m.panic], <<direction, "">>)

\* Char(ch) and Tab
KeyChar(ch) ==
    /\ Editing
    /\ dirty < MaxDirty
    /\ Handled(insert_char(Cur, ch), <<"Char", "">>)

\* Which branch of delete_char a call at cursor (y, x) takes
delete_char_case(cc, rows) ==
    IF edit_mode = "READONLY" THEN "readonly"
    ELSE IF cc.cursor_y = Len(rows) \/ (cc.cursor_y = 0 /\ cc.cursor_x = 0) THEN "nothing"
    ELSE IF cc.cursor_x > 0 THEN "in_row" ELSE "join"

KeyBackspace ==
    /\ Editing
    /\ dirty < MaxDirty
    /\ Handled(delete_char(Cur),
               <<"Backspace", delete_char_case(cursor_controller, row_contents)>>)

\* Delete: move_cursor(Right), then delete_char
KeyDelete ==
    /\ Editing
    /\ dirty < MaxDirty
    /\ LET m == move_cursor(cursor_controller, "Right", row_contents, TRUE)
       IN IF m.panic THEN Handled([Cur EXCEPT !.panic = TRUE], <<"Delete", "panic">>)
          ELSE Handled(delete_char([Cur EXCEPT !.cc = m.cc]),
                       <<"Delete", delete_char_case(m.cc, row_contents)>>)

\* Enter, on a buffer that is no directory listing
KeyEnter ==
    /\ Editing
    /\ dirty < MaxDirty
    /\ file_type # "DIR"
    /\ Handled(insert_newline(Cur),
               <<"Enter", IF cursor_controller.cursor_x = 0 THEN "row" ELSE "split">>)

\* PageUp, PageDown
KeyPage(val) ==
    /\ Editing
    /\ cursor_controller.cursor_y <= MaxCursorY
    /\ \E overflow_checks \in BOOLEAN :
          LET m == page_move(cursor_controller, val, row_contents, overflow_checks)
          IN Handled([Cur EXCEPT !.cc = m.cc, !.panic = m.panic], <<val, "">>)

-----------------------------------------------------------------------------
(* Construction: Output::new on no argument, a file, or a directory *)

\* The lines of the files opened: Rust text, and text of no language
InitLines == {<<"a">>, <<"/", "/">>, <<"/", "*">>, <<"*", "/">>}
PlainLines == {<<>>, <<"a">>}

Opened(rows, path, type, emode, syntax) ==
    /\ row_contents = rows
    /\ filename = path
    /\ file_type = type
    /\ edit_mode = emode
    /\ syntax_highlight = syntax
    /\ dirty = 0
    /\ status_message = "HELP: Ctrl-h"
    /\ cursor_controller = scroll(CursorController_new, rows)
    /\ search_index = SearchIndex_new
    /\ mode = "edit"
    /\ input = <<>>
    /\ find_cursor = CursorController_new
    /\ find_highlight = <<>>
    /\ pending = <<>>
    /\ key = <<"None", "">>
    /\ crashed = FALSE
    /\ disk = NoDisk

\* No argument: the empty unnamed buffer
InitUnnamed == Opened(<<>>, NoName, "FILE", "NORMAL", "None")

\* A file whose extension selects the Rust rules
InitRustFile ==
    \E lines \in SeqsUpTo(InitLines, InitRows) :
        Opened(from_file_lines(<<>>, lines, "Rust"), "f.rs", "FILE", "NORMAL", "Rust")

\* A file whose extension selects no rules
InitPlainFile ==
    \E lines \in SeqsUpTo(PlainLines, InitRows) :
        Opened(from_file_lines(<<>>, lines, "None"), "f.txt", "FILE", "NORMAL", "None")

\* A directory: the read-only listing
InitListing ==
    \E entries \in SeqsUpTo(PlainLines \ {<<>>}, InitRows) :
        Opened(dir_rows(entries), NoName, "DIR", "READONLY", "None")

Init == InitUnnamed \/ InitRustFile \/ InitPlainFile \/ InitListing

Next ==
    \/ \E direction \in Directions : KeyMove(direction)
    \/ \E ch \in EditChars : KeyChar(ch)
    \/ KeyBackspace
    \/ KeyDelete
    \/ KeyEnter

Spec == Init /\ [][Next]_vars

-----------------------------------------------------------------------------
(* What a from-scratch scan of the rows produces *)

RawLines(rows) == [k \in 1..Len(rows) |-> rows[k].row_content]

\* The rows as EditorRows::from_file builds them from the same text
Rescanned(rows) == from_file_lines(<<>>, RawLines(rows), "Rust")

\* Every row's is_comment and highlight are what a scan of rows 0..n-1 in
\* order produces
Consistent == syntax_highlight = "Rust" /\ row_contents = Rescanned(row_contents)

EditKeys == {"Char", "Backspace", "Delete", "Enter"}

-----------------------------------------------------------------------------
(* C1: after insert_char, delete_char or insert_newline, on any buffer the  *)
(* editor was populated with, every row has as many highlight tags as       *)
(* rendered characters.                                                     *)

HighlightLengths ==
    \A k \in 1..Len(row_contents) :
        Len(row_contents[k].highlight) = Len(row_contents[k].render)

C1_HighlightLengthAfterEdit == key[1] \in EditKeys => HighlightLengths

(* C2: from a consistent buffer, insert_char, or delete_char with the       *)
(* cursor column > 0, followed by its cascade, leaves the buffer consistent.*)
(* Stated of every reachable state: if the buffer is consistent, the rows   *)
(* the operation produces are what a from-scratch scan of them produces.    *)

C2_SingleRowEditKeepsConsistent ==
    (Consistent /\ cursor_controller.cursor_y <= Len(row_contents)) =>
        /\ \A ch \in EditChars :
              LET rows == insert_char(Cur, ch).rows IN rows = Rescanned(rows)
        /\ delete_char_case(cursor_controller, row_contents) = "in_row" =>
              LET rows == delete_char(Cur).rows IN rows = Rescanned(rows)

\* '/' typed at column 0 of "*/", the first of three rows: the row becomes
\* "/*/", its flag turns true and the cascade re-tags both rows below.
C2_Witness ==
    /\ key = <<"Char", "">>
    /\ dirty = 1
    /\ Len(row_contents) = 3
    /\ cursor_controller.cursor_y = 0
    /\ cursor_controller.cursor_x = 1
    /\ row_contents[1].row_content = <<"/", "*", "/">>
    /\ row_contents[2].row_content = <<"a">>
    /\ row_contents[2].highlight = <<"MultilineComment">>
    /\ row_contents[3].is_comment
    /\ Consistent

\* The first edit of a file acts on the rows from_file scanned in order,
\* which are consistent
FirstEditOfRustFile == syntax_highlight = "Rust" /\ dirty = 1

(* C3: from a consistent buffer, delete_char at column 0 of a row > 0 (the  *)
(* join) leaves every remaining row as a from-scratch scan would.           *)

C3_JoinKeepsConsistent ==
    (FirstEditOfRustFile /\ key \in {<<"Backspace", "join">>, <<"Delete", "join">>})
        => Consistent

(* C4: from a consistent buffer, insert_newline (the empty row inserted at  *)
(* column 0, and the split at a column > 0) leaves every row as a           *)
(* from-scratch scan would.                                                 *)

C4_NewlineKeepsConsistent ==
    (FirstEditOfRustFile /\ key[1] = "Enter") => Consistent

\* The two cases of C4 apart: each fails
C4_SplitKeepsConsistent ==
    (FirstEditOfRustFile /\ key = <<"Enter", "split">>) => Consistent

C4_EmptyRowKeepsConsistent ==
    (FirstEditOfRustFile /\ key = <<"Enter", "row">>) => Consistent

-----------------------------------------------------------------------------
(* C5: update_syntax is idempotent: on any buffer and any row, a second run *)
(* right after the first changes no row's is_comment and no row's tags.     *)

C5_UpdateSyntaxIdempotent ==
    \A at \in 0..(Len(row_contents) - 1) :
        LET once == update_syntax(at, row_contents)
        IN update_syntax(at, once) = once

\* A buffer on which the first run changes the row and cascades
C5_Witness ==
    \E at \in 0..(Len(row_contents) - 1) :
        LET run == update_syntax_from(at, row_contents, <<>>)
        IN /\ run.rows # row_contents
           /\ Len(run.scanned) >= 2
           /\ update_syntax(at, run.rows) = run.rows

(* C6: the cascade started at any row terminates: it scans rows of strictly *)
(* increasing (consecutive) index, goes on to the next row only when the    *)
(* row just scanned changed its is_comment, and so scans every row at most  *)
(* once and at most rows.len() rows.                                        *)

C6_CascadeBounded ==
    \A at \in 0..(Len(row_contents) - 1) :
        LET scanned == update_syntax_from(at, row_contents, <<>>).scanned
        IN /\ Len(scanned) >= 1
           /\ Len(scanned) <= Len(row_contents) - at
           /\ \A k \in 1..Len(scanned) : scanned[k].at = at + k - 1
           /\ \A k \in 1..(Len(scanned) - 1) : scanned[k].changed
           /\ scanned[Len(scanned)].changed => scanned[Len(scanned)].at = Len(row_contents) - 1

\* A buffer and a row from which the cascade goes on to the next row, since
\* the flag changed, and stops there, before the last row, since it did not
C6_Witness ==
    \E at \in 0..(Len(row_contents) - 1) :
        LET scanned == update_syntax_from(at, row_contents, <<>>).scanned
        IN /\ Len(scanned) = 2
           /\ scanned[1].changed
           /\ ~scanned[2].changed
           /\ scanned[2].at < Len(row_contents) - 1

-----------------------------------------------------------------------------
(* Loading a file: EditorRows::from_file pushes the rendered row of every   *)
(* line and runs update_syntax on it, one line after the other. The files   *)
(* are Rust files whose last line is text of keywords, digits, blanks and   *)
(* quotes, or text of comment tokens, below lines that open a comment or    *)
(* do not.                                                                  *)

KeywordLen == 4
CommentLen == 3
LoadRows == 2

KeywordChars == {"i", "f", "8", " ", "\""}
CommentChars == {"/", "*", "a", "\""}
OpenerLines == {<<"/", "*">>, <<"a">>}
ExampleLines == {<<"f", "o", "r", " ", "f", "o", "r", "m", "a", "t">>,
                 <<"x", "f", "o", "r">>}

LastLines ==
    SeqsUpTo(KeywordChars, KeywordLen) \cup SeqsUpTo(CommentChars, CommentLen)
        \cup ExampleLines

LoadFiles ==
    {prefix \o <<line>> : prefix \in SeqsUpTo(OpenerLines, LoadRows - 1),
                          line \in LastLines}

\* from_file before its first line: no row yet, the Rust rules selected
InitLoad ==
    \E file \in LoadFiles :
        /\ pending = file
        /\ row_contents = <<>>
        /\ mode = "load"
        /\ filename = "f.rs"
        /\ file_type = "FILE"
        /\ edit_mode = "NORMAL"
        /\ syntax_highlight = select_syntax("f.rs")
        /\ dirty = 0
        /\ status_message = "HELP: Ctrl-h"
        /\ cursor_controller = CursorController_new
        /\ search_index = SearchIndex_new
        /\ input = <<>>
        /\ find_cursor = CursorController_new
        /\ find_highlight = <<>>
        /\ key = <<"None", "">>
        /\ crashed = FALSE
        /\ disk = NoDisk

\* One turn of the for_each: the next line becomes a row and is scanned
LoadLine ==
    /\ mode = "load"
    /\ pending # <<>>
    /\ row_contents' = from_file_line(row_contents, Head(pending), syntax_highlight)
    /\ pending' = Tail(pending)
    /\ UNCHANGED <<filename, edit_mode, file_type, syntax_highlight, dirty,
                   status_message, cursor_controller, search_index, mode, input,
                   find_cursor, find_highlight, key, crashed, disk>>

\* The file is read: the editor shows it
LoadDone ==
    /\ mode = "load"
    /\ pending = <<>>
    /\ mode' = "edit"
    /\ cursor_controller' = scroll(cursor_controller, row_contents)
    /\ UNCHANGED <<row_contents, filename, edit_mode, file_type, syntax_highlight,
                   dirty, status_message, search_index, input, find_cursor,
                   find_highlight, pending, key, crashed, disk>>

NextLoad == LoadLine \/ LoadDone

SpecLoad == InitLoad /\ [][NextLoad]_vars

-----------------------------------------------------------------------------
(* C7: a keyword of the table is tagged with its colour only when the       *)
(* character before it is a separator, or it starts the row, and the        *)
(* character after it is a separator, or it ends the row; a keyword inside  *)
(* a longer identifier is not tagged as a keyword.                          *)

KeywordColors == {keywords[j].color : j \in 1..Len(keywords)}

\* word stands at the 0-based position s of text
occurrence(text, s, word) ==
    /\ s + Len(word) <= Len(text)
    /\ SubSeq(text, s + 1, s + Len(word)) = word

\* The characters next to the occurrence are separators, or the row's ends
bounded(text, s, word) ==
    /\ s = 0 \/ is_separator(text[s])
    /\ s + Len(word) = Len(text) \/ is_separator(text[s + Len(word) + 1])

\* The tag at the 1-based position p is the colour of a keyword that stands
\* there between separators
keyword_tag_bounded(row, p) ==
    \E j \in 1..Len(keywords) :
        /\ keywords[j].color = row.highlight[p]
        /\ \E s \in 0..(p - 1) :
              /\ p <= s + Len(keywords[j].word)
              /\ occurrence(row.render, s, keywords[j].word)
              /\ bounded(row.render, s, keywords[j].word)

C7_KeywordSeparatorBounded ==
    \A k \in 1..Len(row_contents) :
        LET row == row_contents[k]
        IN /\ Len(row.highlight) = Len(row.render)
           /\ \A p \in 1..Len(row.highlight) :
                 row.highlight[p] \in KeywordColors => keyword_tag_bounded(row, p)
           /\ \A j \in 1..Len(keywords) : \A s \in 0..(Len(row.render) - 1) :
                 (/\ occurrence(row.render, s, keywords[j].word)
                  /\ ~bounded(row.render, s, keywords[j].word))
                 => \A p \in (s + 1)..(s + Len(keywords[j].word)) :
                       \/ row.highlight[p] \notin KeywordColors
                       \/ keyword_tag_bounded(row, p)

\* "for format" loaded: "for" is tagged, the "for" of "format" is not
C7_Witness ==
    /\ mode = "edit"
    /\ \E k \in 1..Len(row_contents) :
          /\ row_contents[k].render = <<"f", "o", "r", " ", "f", "o", "r", "m", "a", "t">>
          /\ row_contents[k].highlight = Repeat(Yellow, 3) \o Repeat("Normal", 7)

-----------------------------------------------------------------------------
(* C8: a row scanned while the flag of the row above is true has every      *)
(* character up to and including the first end token tagged                 *)
(* MultilineComment and the text after the end token scanned normally;      *)
(* every row's is_comment is true exactly when a multiline comment is open  *)
(* at the end of the row.                                                   *)

\* Whether a multiline comment is open at the end of text, read from the
\* 0-based position i on with a comment open or not and inside a string
\* (quote) or not
RECURSIVE comment_open_at_end(_, _, _, _)
comment_open_at_end(text, i, open, quote) ==
    IF i >= Len(text) THEN open
    ELSE LET c == text[i + 1]
         IN IF quote # NoString
            THEN IF c = "\\" /\ i + 1 < Len(text)
                 THEN comment_open_at_end(text, i + 2, open, quote)
                 ELSE comment_open_at_end(text, i + 1, open,
                                          IF c = quote THEN NoString ELSE quote)
            ELSE IF open
            THEN IF occurrence(text, i, <<"*", "/">>)
                 THEN comment_open_at_end(text, i + 2, FALSE, NoString)
                 ELSE comment_open_at_end(text, i + 1, TRUE, NoString)
            ELSE IF occurrence(text, i, <<"/", "/">>) THEN FALSE
            ELSE IF occurrence(text, i, <<"/", "*">>)
                 THEN comment_open_at_end(text, i + 2, TRUE, NoString)
            ELSE IF c \in {"\"", "'"}
                 THEN comment_open_at_end(text, i + 1, FALSE, c)
            ELSE comment_open_at_end(text, i + 1, FALSE, NoString)

\* The 0-based position of the first end token of text, or -1
first_end_token(text) ==
    LET ends == {i \in 0..(Len(text) - 2) : occurrence(text, i, <<"*", "/">>)}
    IN IF ends = {} THEN -1 ELSE CHOOSE i \in ends : \A j \in ends : i <= j

C8_CommentStateCarried ==
    \A k \in 1..Len(row_contents) :
        LET row == row_contents[k]
            n == Len(row.render)
            above == k > 1 /\ row_contents[k - 1].is_comment
            e == first_end_token(row.render)
            rest == SubSeq(row.render, e + 3, n)
        IN /\ row.is_comment = comment_open_at_end(row.render, 0, above, NoString)
           /\ above =>
                 IF e < 0
                 THEN row.highlight = Repeat("MultilineComment", n) /\ row.is_comment
                 ELSE /\ SubSeq(row.highlight, 1, e + 2) = Repeat("MultilineComment", e + 2)
                      /\ SubSeq(row.highlight, e + 3, n)
                            = from_file_line(<<>>, rest, "Rust")[1].highlight

\* "*/a" below a row that leaves a comment open: the end token is tagged
\* MultilineComment, the "a" after it Normal, and the row's flag is false
C8_Witness ==
    \E k \in 2..Len(row_contents) :
        /\ row_contents[k - 1].is_comment
        /\ row_contents[k].render = <<"*", "/", "a">>
        /\ row_contents[k].highlight = <<"MultilineComment", "MultilineComment", "Normal">>
        /\ ~row_contents[k].is_comment

-----------------------------------------------------------------------------
(* Search: find() runs prompt_callback with find_callback, which is called  *)
(* after every key of the prompt. The operators work on a record            *)
(* [rows, cc, si, panic] of the rows, the cursor and the search index.      *)

\* str::find on render[start..], as a position of render, or -1 for None
str_find(render, start, keyword) ==
    LET hits == {i \in start..(Len(render) - Len(keyword)) :
                    SubSeq(render, i + 1, i + Len(keyword)) = keyword}
    IN IF hits = {} THEN -1 ELSE CHOOSE i \in hits : \A j \in hits : i <= j

\* str::rfind on render[..end], or -1 for None
str_rfind(render, end, keyword) ==
    LET hits == {i \in 0..(end - Len(keyword)) :
                    SubSeq(render, i + 1, i + Len(keyword)) = keyword}
    IN IF hits = {} THEN -1 ELSE CHOOSE i \in hits : \A j \in hits : i >= j

\* The overlay of a forgotten restore: the rows stay as they are
restore_previous_highlight_never(rows, si) == rows

\* previous_highlight.take(): the saved tags go back to their row
restore_previous_highlight(rows, si) ==
    IF si.previous_highlight = <<>> THEN rows
    ELSE LET saved == si.previous_highlight[1]
         IN [rows EXCEPT ![saved.index + 1].highlight = saved.highlight]

\* The vertical directions exchanged
y_direction_exchanged(key_code) ==
    IF key_code = "Down" THEN "Backward"
    ELSE IF key_code = "Up" THEN "Forward" ELSE "None"

\* The arrow keys set one direction; every other key sets none
y_direction_of(key_code) ==
    IF key_code = "Down" THEN "Forward"
    ELSE IF key_code = "Up" THEN "Backward" ELSE "None"

x_direction_of(key_code) ==
    IF key_code = "Right" THEN "Forward"
    ELSE IF key_code = "Left" THEN "Backward" ELSE "None"

\* A match at index of row row_index: the tags are saved, the keyword's
\* range is tagged SearchMatch, and the cursor goes to the match. Tagging
\* indexes highlight, and panics where the row has fewer tags.
find_match(o, si, row_index, index, keyword) ==
    LET row == o.rows[row_index + 1]
        tagged == [p \in 1..Len(row.highlight) |->
                      IF p > index /\ p <= index + Len(keyword)
                      THEN "SearchMatch" ELSE row.highlight[p]]
    IN IF index + Len(keyword) > Len(row.highlight)
       THEN [o EXCEPT !.panic = TRUE]
       ELSE [rows |-> [o.rows EXCEPT ![row_index + 1].highlight = tagged],
             cc |-> [o.cc EXCEPT !.cursor_y = row_index,
                                 !.cursor_x = get_row_content_x(row, index),
                                 !.row_offset = Len(o.rows)],
             si |-> [si EXCEPT !.previous_highlight =
                                   <<[index |-> row_index, highlight |-> row.highlight]>>,
                               !.y_index = row_index,
                               !.x_index = index],
             panic |-> FALSE]

\* The for loop of find_callback from its turn i on
RECURSIVE find_scan(_, _, _)
find_scan(i, o, keyword) ==
    IF i >= Len(o.rows) THEN o
    ELSE
    LET si0 == o.si
        si == IF si0.y_direction = "None" /\ si0.x_direction = "None"
              THEN [si0 EXCEPT !.y_index = i] ELSE si0
        res == Max(si.y_index - i, 0)
        row_index == IF si.y_direction = "None" THEN si.y_index
                     ELSE IF si.y_direction = "Forward" THEN si.y_index + i + 1
                     ELSE res - 1
    IN IF si.y_direction = "Backward" /\ res = 0 THEN o
       ELSE IF row_index > Len(o.rows) - 1 THEN [o EXCEPT !.si = si]
       ELSE
       LET row == o.rows[row_index + 1]
           index == IF si.x_direction = "None" THEN str_find(row.render, 0, keyword)
                    ELSE IF si.x_direction = "Forward"
                    THEN str_find(row.render, Min(Len(row.render), si.x_index + 1), keyword)
                    ELSE str_rfind(row.render, si.x_index, keyword)
       IN IF si.x_direction = "Backward" /\ si.x_index > Len(row.render)
          THEN [o EXCEPT !.panic = TRUE]
          ELSE IF index >= 0 THEN find_match(o, si, row_index, index, keyword)
          ELSE IF si.x_direction # "None" THEN [o EXCEPT !.si = si]
          ELSE find_scan(i + 1, [o EXCEPT !.si = si], keyword)

\* Output::find_callback
find_callback(o, keyword, key_code) ==
    LET rows == restore_previous_highlight(o.rows, o.si)
        si == [o.si EXCEPT !.previous_highlight = <<>>]
    IN IF key_code \in {"Esc", "Enter"}
       THEN [o EXCEPT !.rows = rows, !.si = SearchIndex_new]
       ELSE find_scan(0, [o EXCEPT !.rows = rows,
                                   !.si = [si EXCEPT !.y_direction = y_direction_of(key_code),
                                                     !.x_direction = x_direction_of(key_code)]],
                      keyword)

-----------------------------------------------------------------------------
(* The search session: Ctrl-F enters find(), which blocks in the prompt's   *)
(* read_key until Enter on a query or Esc. Every turn of the prompt's loop  *)
(* sets the message and runs refresh_screen before the next key is read.    *)

MaxInput == 2
FindRows == 2

FindChars == {"a", "b"}
FindLines == {<<>>, <<"b">>, <<"a", "b", "a">>, <<"i", "f", " ", "a">>}
FindArrows == {"Up", "Down", "Left", "Right"}

SearchMessage == "Search: {} (Use ESC / Arrows / Enter)"

\* A Rust file, opened and shown
InitFind ==
    \E lines \in SeqsUpTo(FindLines, FindRows) :
        Opened(from_file_lines(<<>>, lines, "Rust"), "f.rs", "FILE", "NORMAL", "Rust")

\* What find_callback works on, as it is now
CurFind == [rows |-> row_contents, cc |-> cursor_controller, si |-> search_index,
            panic |-> FALSE]

Prompting == mode = "find" /\ ~crashed

\* Ctrl-F: find() copies the cursor and the prompt shows its message
KeyFind ==
    /\ Editing
    /\ mode' = "find"
    /\ find_cursor' = cursor_controller
    /\ find_highlight' = [k \in 1..Len(row_contents) |-> row_contents[k].highlight]
    /\ input' = <<>>
    /\ status_message' = SearchMessage
    /\ cursor_controller' = scroll(cursor_controller, row_contents)
    /\ key' = <<"Ctrl-f", "">>
    /\ UNCHANGED <<row_contents, filename, edit_mode, file_type, syntax_highlight,
                   dirty, search_index, pending, crashed, disk>>

\* The state after find_callback returned o on key k of the prompt: the
\* loop goes on (stay), or find() returns and restores the cursor if the
\* prompt gave None (cancelled)
Prompted(o, k, text, stay, cancelled) ==
    /\ IF o.panic
       THEN /\ crashed' = TRUE
            /\ UNCHANGED <<row_contents, cursor_controller, search_index, mode,
                           status_message, input>>
       ELSE /\ crashed' = FALSE
            /\ row_contents' = o.rows
            /\ search_index' = o.si
            /\ cursor_controller' = scroll(IF cancelled THEN find_cursor ELSE o.cc, o.rows)
            /\ mode' = IF stay THEN "find" ELSE "edit"
            /\ status_message' = IF stay THEN SearchMessage ELSE ""
            /\ input' = text
    /\ key' = k
    /\ UNCHANGED <<filename, edit_mode, file_type, syntax_highlight, dirty,
                   find_cursor, find_highlight, pending, disk>>

\* Char(ch): pushed to the input
FindChar(ch) ==
    /\ Prompting
    /\ Len(input) < MaxInput
    /\ LET text == Append(input, ch)
       IN Prompted(find_callback(CurFind, text, "Char"), <<"Char", "prompt">>,
                   text, TRUE, FALSE)

\* Backspace and Delete: input.pop()
FindBackspace ==
    /\ Prompting
    /\ LET text == SubSeq(input, 1, Len(input) - 1)
       IN Prompted(find_callback(CurFind, text, "Backspace"), <<"Backspace", "prompt">>,
                   text, TRUE, FALSE)

\* An arrow key: the input stays, the callback searches in its direction
FindArrow(direction) ==
    /\ Prompting
    /\ Prompted(find_callback(CurFind, input, direction), <<direction, "prompt">>,
                input, TRUE, FALSE)

\* Enter: on an empty input the loop goes on, else the prompt returns it
FindEnter ==
    /\ Prompting
    /\ Prompted(find_callback(CurFind, input, "Enter"),
                <<"Enter", IF input = <<>> THEN "empty" ELSE "found">>,
                input, input = <<>>, FALSE)

\* Esc: the input is cleared and the prompt returns None
FindEsc ==
    /\ Prompting
    /\ Prompted(find_callback(CurFind, <<>>, "Esc"), <<"Esc", "cancelled">>,
                <<>>, FALSE, TRUE)

NextFind ==
    \/ KeyFind
    \/ \E ch \in FindChars : FindChar(ch)
    \/ FindBackspace
    \/ \E direction \in FindArrows : FindArrow(direction)
    \/ FindEnter
    \/ FindEsc

SpecFind == InitFind /\ [][NextFind]_vars

-----------------------------------------------------------------------------
(* C9: the search overlay is transient: after a search session of any query *)
(* edits and arrow keys that ends with Esc or Enter, every row's tags are   *)
(* the tags it had when the session started, and no row keeps a SearchMatch *)
(* tag.                                                                     *)

SessionEnded ==
    /\ mode = "edit"
    /\ ~crashed
    /\ key \in {<<"Esc", "cancelled">>, <<"Enter", "found">>}

C9_SearchOverlayTransient ==
    SessionEnded =>
        /\ Len(row_contents) = Len(find_highlight)
        /\ \A k \in 1..Len(row_contents) :
              /\ row_contents[k].highlight = find_highlight[k]
              /\ \A p \in 1..Len(row_contents[k].highlight) :
                    row_contents[k].highlight[p] # "SearchMatch"

\* A session ended by Enter on a query of two characters whose match, on
\* the second row, took the cursor there from the first row
C9_Witness ==
    /\ SessionEnded
    /\ key = <<"Enter", "found">>
    /\ Len(input) = 2
    /\ find_cursor.cursor_y = 0
    /\ cursor_controller.cursor_y = 1
    /\ row_contents[2].render = <<"a", "b", "a">>

-----------------------------------------------------------------------------
(* Columns: a file of no language whose last row is text of tabs and        *)
(* letters, and the cursor moved over it; scroll() computes render_x of     *)
(* the cursor's column with get_render_x.                                   *)

ColLen == 4
ColRows == 2

ColChars == {"\t", "a"}
ColOpenerLines == {<<"a">>}

ColFiles ==
    {prefix \o <<line>> : prefix \in SeqsUpTo(ColOpenerLines, ColRows - 1),
                          line \in SeqsUpTo(ColChars, ColLen)}

InitCols ==
    \E lines \in ColFiles :
        Opened(from_file_lines(<<>>, lines, "None"), "f.txt", "FILE", "NORMAL", "None")

NextCols == \E direction \in Directions : KeyMove(direction)

SpecCols == InitCols /\ [][NextCols]_vars

-----------------------------------------------------------------------------
(* C10: for every row and every raw column c of the row, the raw column of  *)
(* the render column of c (get_row_content_x of get_render_x) is within     *)
(* one tab stop of c, and is c when no tab precedes c.                      *)

Distance(a, b) == IF a >= b THEN a - b ELSE b - a

TabPrecedes(row, c) == \E j \in 1..c : row.row_content[j] = "\t"

RoundTrip(row, c, render_x) ==
    LET back == get_row_content_x(row, render_x)
    IN /\ Distance(back, c) <= TAB_STOP
       /\ ~TabPrecedes(row, c) => back = c

C10_ColumnRoundTrip ==
    /\ \A k \in 1..Len(row_contents) :
          \A c \in 0..(Len(row_contents[k].row_content) - 1) :
              RoundTrip(row_contents[k], c, get_render_x(c, row_contents[k]))
    /\ (/\ ~crashed
        /\ cursor_controller.cursor_y < Len(row_contents)
        /\ cursor_controller.cursor_x
              < Len(row_contents[cursor_controller.cursor_y + 1].row_content))
       => RoundTrip(row_contents[cursor_controller.cursor_y + 1],
                    cursor_controller.cursor_x, cursor_controller.render_x)

\* The cursor moved right over "a" and a tab onto the third character:
\* render_x is 8, and column 8 of the rendering is raw column 2
C10_Witness ==
    /\ key = <<"Right", "">>
    /\ ~crashed
    /\ cursor_controller.cursor_y < Len(row_contents)
    /\ cursor_controller.cursor_x = 2
    /\ cursor_controller.render_x = 8
    /\ LET row == row_contents[cursor_controller.cursor_y + 1]
       IN /\ Len(row.row_content) >= 3
          /\ SubSeq(row.row_content, 1, 3) = <<"a", "\t", "a">>
          /\ get_row_content_x(row, cursor_controller.render_x) = 2

-----------------------------------------------------------------------------
(* Saving.  EditorRows::save returns Err without a file name; with one it   *)
(* opens the file, sets its length and writes the joined rows.  A failure   *)
(* of the open leaves the file as it was; a failure after the open leaves   *)
(* a file of unspecified content.                                           *)

SaveFailures == {"none", "open", "write"}

\* The rows from the k-th on, each followed by a newline
RECURSIVE join_from_terminated(_, _)
join_from_terminated(rows, k) ==
    IF k > Len(rows) THEN <<>>
    ELSE rows[k].row_content \o <<"\n">> \o join_from_terminated(rows, k + 1)

\* .collect::<Vec<&str>>().join("\n") of the rows from the k-th on
RECURSIVE join_from(_, _)
join_from(rows, k) ==
    IF k > Len(rows) THEN <<>>
    ELSE IF k = Len(rows) THEN rows[k].row_content
    ELSE rows[k].row_content \o <<"\n">> \o join_from(rows, k + 1)

\* The contents save() builds
save_contents(rows) == join_from(rows, 1)

\* save that opens and writes a file before it looks at the file name
EditorRows_save_writes_first(rows, name, d, failure) ==
    IF name = NoName
    THEN [name |-> name, contents |-> save_contents(rows), result |-> "NoFileName",
          len |-> 0]
    ELSE IF failure = "open" THEN [d EXCEPT !.result = "IoError", !.len = 0]
    ELSE IF failure = "write"
    THEN [name |-> name, contents |-> <<"?">>, result |-> "IoError", len |-> 0]
    ELSE [name |-> name, contents |-> save_contents(rows), result |-> "Ok",
          len |-> Len(save_contents(rows))]

\* EditorRows::save, as the file and the result it leaves
EditorRows_save(rows, name, d, failure) ==
    IF name = NoName THEN [d EXCEPT !.result = "NoFileName", !.len = 0]
    ELSE IF failure = "open" THEN [d EXCEPT !.result = "IoError", !.len = 0]
    ELSE IF failure = "write"
    THEN [name |-> name, contents |-> <<"?">>, result |-> "IoError", len |-> 0]
    ELSE [name |-> name, contents |-> save_contents(rows), result |-> "Ok",
          len |-> Len(save_contents(rows))]

\* for i in 0..number_of_rows: update_syntax(i), from row i on
RECURSIVE highlight_rows_from(_, _, _)
highlight_rows_from(syntax, i, rows) ==
    IF i >= Len(rows) THEN rows
    ELSE highlight_rows_from(syntax, i + 1, highlight_if_some(syntax, i, rows))

SaveAsMessage == "Save as : {} (ESC to cancel)"
SaveAbortedMessage == "Save Aborted"
BytesWrittenMessage == "{} bytes written to disk"

-----------------------------------------------------------------------------
(* The buffer edited and saved: files of tabs and letters, the unnamed      *)
(* buffer and a listing; the cursor keys, the editing keys, Ctrl-S with its *)
(* "Save as" prompt, and EditorRows::save called on a buffer without a      *)
(* file name.  The edits stop at MaxEdits unsaved changes and at a buffer   *)
(* of MaxSize characters and rows.                                          *)

MaxEdits == 2
MaxSize == 4
BufRows == 2
MaxName == 2

BufChars == {"\t", "a", TwoByteChar}
BufLines == {<<>>, <<"a">>, <<"\t">>}
NameChars == {"n"}

\* The rows and characters of the buffer
BufferSize(rows) == IF rows = <<>> THEN 0 ELSE Len(save_contents(rows)) + 1

\* The path the prompt returns for the characters typed
typed_path(text) ==
    IF Len(text) = 1 THEN "n" ELSE IF Len(text) = 2 THEN "nn" ELSE "nnn"

InitBuffer ==
    \/ InitUnnamed
    \/ \E lines \in SeqsUpTo(BufLines, BufRows) :
          Opened(from_file_lines(<<>>, lines, "None"), "f.txt", "FILE", "NORMAL", "None")
    \/ \E entries \in SeqsUpTo({<<"a">>}, BufRows) :
          Opened(dir_rows(entries), NoName, "DIR", "READONLY", "None")

CanEdit == Editing /\ dirty < MaxEdits

\* Char(ch) and Tab
BufferChar(ch) ==
    /\ CanEdit
    /\ BufferSize(row_contents) < MaxSize
    /\ Handled(insert_char(Cur, ch), <<"Char", "">>)

BufferBackspace ==
    /\ CanEdit
    /\ Handled(delete_char(Cur),
               <<"Backspace", delete_char_case(cursor_controller, row_contents)>>)

\* Delete: move_cursor(Right), then delete_char
BufferDelete ==
    /\ CanEdit
    /\ LET m == move_cursor(cursor_controller, "Right", row_contents, TRUE)
       IN IF m.panic THEN Handled([Cur EXCEPT !.panic = TRUE], <<"Delete", "panic">>)
          ELSE Handled(delete_char([Cur EXCEPT !.cc = m.cc]),
                       <<"Delete", delete_char_case(m.cc, row_contents)>>)

\* Enter, on a buffer that is no directory listing
BufferEnter ==
    /\ CanEdit
    /\ BufferSize(row_contents) < MaxSize
    /\ file_type # "DIR"
    /\ Handled(insert_newline(Cur),
               <<"Enter", IF cursor_controller.cursor_x = 0 THEN "row" ELSE "split">>)

\* save_file that leaves dirty as it is when the save succeeded
Saved_dirty_kept(rows, name, syntax, failure, status, k) ==
    LET d == EditorRows_save(rows, name, disk, failure)
    IN /\ disk' = d
       /\ row_contents' = rows
       /\ filename' = name
       /\ syntax_highlight' = syntax
       /\ IF d.result = "Ok"
          THEN /\ status_message' = BytesWrittenMessage
               /\ mode' = "edit"
               /\ cursor_controller' = scroll(cursor_controller, rows)
               /\ UNCHANGED dirty
          ELSE /\ status_message' = status
               /\ mode' = "exit"
               /\ UNCHANGED <<dirty, cursor_controller>>
       /\ input' = <<>>
       /\ key' = k
       /\ UNCHANGED <<edit_mode, file_type, search_index, find_cursor, find_highlight,
                      pending, crashed>>

\* save_file from its call of EditorRows::save on: on Ok the message and
\* dirty = 0, on Err the error goes up to main, which ends the process
Saved(rows, name, syntax, failure, status, k) ==
    LET d == EditorRows_save(rows, name, disk, failure)
    IN /\ disk' = d
       /\ row_contents' = rows
       /\ filename' = name
       /\ syntax_highlight' = syntax
       /\ IF d.result = "Ok"
          THEN /\ status_message' = BytesWrittenMessage
               /\ dirty' = 0
               /\ mode' = "edit"
               /\ cursor_controller' = scroll(cursor_controller, rows)
          ELSE /\ status_message' = status
               /\ mode' = "exit"
               /\ UNCHANGED <<dirty, cursor_controller>>
       /\ input' = <<>>
       /\ key' = k
       /\ UNCHANGED <<edit_mode, file_type, search_index, find_cursor, find_highlight,
                      pending, crashed>>

\* Ctrl-S: save_file, which asks for a name if the buffer has none
KeySave ==
    /\ Editing
    /\ IF filename = NoName
       THEN /\ mode' = "saveas"
            /\ input' = <<>>
            /\ status_message' = SaveAsMessage
            /\ cursor_controller' = scroll(cursor_controller, row_contents)
            /\ key' = <<"Ctrl-s", "prompt">>
            /\ UNCHANGED <<row_contents, filename, edit_mode, file_type,
                           syntax_highlight, dirty, search_index, find_cursor,
                           find_highlight, pending, crashed, disk>>
       ELSE \E failure \in SaveFailures :
               Saved(row_contents, filename, syntax_highlight, failure, status_message,
                     <<"Ctrl-s", "save">>)

Naming == mode = "saveas" /\ ~crashed

\* A key of the "Save as" prompt that edits the input or leaves the prompt
\* without a name
NamePrompted(text, stay, status, k) ==
    /\ input' = text
    /\ mode' = IF stay THEN "saveas" ELSE "edit"
    /\ status_message' = status
    /\ cursor_controller' = scroll(cursor_controller, row_contents)
    /\ key' = k
    /\ UNCHANGED <<row_contents, filename, edit_mode, file_type, syntax_highlight,
                   dirty, search_index, find_cursor, find_highlight, pending,
                   crashed, disk>>

SaveAsChar(ch) ==
    /\ Naming
    /\ Len(input) < MaxName
    /\ NamePrompted(Append(input, ch), TRUE, SaveAsMessage, <<"Char", "saveas">>)

SaveAsBackspace ==
    /\ Naming
    /\ NamePrompted(SubSeq(input, 1, Len(input) - 1), TRUE, SaveAsMessage,
                    <<"Backspace", "saveas">>)

\* Esc: the prompt returns None and save_file reports the abort
SaveAsEsc ==
    /\ Naming
    /\ NamePrompted(<<>>, FALSE, SaveAbortedMessage, <<"Esc", "saveas">>)

\* Enter: nothing on an empty input; else the name selects the syntax, the
\* rows are highlighted with it, the buffer takes the name and is saved
SaveAsEnter ==
    /\ Naming
    /\ IF input = <<>>
       THEN NamePrompted(input, TRUE, SaveAsMessage, <<"Enter", "empty">>)
       ELSE LET name == typed_path(input)
                selected == select_syntax(name)
                syntax == IF selected = "None" THEN syntax_highlight ELSE selected
                rows == IF selected = "None" THEN row_contents
                        ELSE highlight_rows_from(selected, 0, row_contents)
            IN \E failure \in SaveFailures :
                  Saved(rows, name, syntax, failure, "", <<"Enter", "saveas">>)

\* EditorRows::save called on a buffer without a file name
CallSave ==
    /\ Editing
    /\ filename = NoName
    /\ \E failure \in SaveFailures :
          disk' = EditorRows_save(row_contents, filename, disk, failure)
    /\ key' = <<"save", "">>
    /\ UNCHANGED <<row_contents, filename, edit_mode, file_type, syntax_highlight,
                   dirty, status_message, cursor_controller, search_index, mode,
                   input, find_cursor, find_highlight, pending, crashed>>

NextBuffer ==
    \/ \E direction \in Directions : KeyMove(direction)
    \/ \E ch \in BufChars : BufferChar(ch)
    \/ BufferBackspace
    \/ BufferDelete
    \/ BufferEnter
    \/ KeySave
    \/ \E ch \in NameChars : SaveAsChar(ch)
    \/ SaveAsBackspace
    \/ SaveAsEsc
    \/ SaveAsEnter
    \/ CallSave

SpecBuffer == InitBuffer /\ [][NextBuffer]_vars

-----------------------------------------------------------------------------
(* C11: in every reachable state every row's render is the tab expansion    *)
(* of its row_content: a character other than a tab stands for itself, a    *)
(* tab becomes 1 to 8 spaces that end on the next multiple of the tab stop, *)
(* and the length of render is the render column of the end of the row.     *)

\* The spaces of a tab at render column col
TabWidth(col) == TAB_STOP - (col % TAB_STOP)

\* The characters of a string: every byte but the continuation bytes
Columns(s) == Cardinality({i \in 1..Len(s) : s[i] # ContinuationByte})

\* raw from its k-th byte on, expanded behind the text expanded so far
RECURSIVE TabExpansion(_, _, _)
TabExpansion(raw, k, expanded) ==
    IF k > Len(raw) THEN expanded
    ELSE TabExpansion(raw, k + 1,
             IF raw[k] = "\t"
             THEN expanded \o [j \in 1..TabWidth(Columns(expanded)) |-> " "]
             ELSE Append(expanded, raw[k]))

C11_RenderIsTabExpansion ==
    \A k \in 1..Len(row_contents) :
        LET row == row_contents[k]
        IN /\ row.render = TabExpansion(row.row_content, 1, <<>>)
           /\ Columns(row.render) = get_render_x(Len(row.row_content), row)

\* A tab typed behind "a": the row renders as "a" and seven spaces
C11_Witness ==
    /\ key = <<"Char", "">>
    /\ dirty > 0
    /\ \E k \in 1..Len(row_contents) :
          /\ row_contents[k].row_content = <<"a", "\t">>
          /\ row_contents[k].render = <<"a", " ", " ", " ", " ", " ", " ", " ">>
          /\ cursor_controller.cursor_y = k - 1
          /\ cursor_controller.cursor_x = 2

\* A tab typed behind the character of two bytes: seven spaces again
C11_WitnessTwoBytes ==
    /\ key = <<"Char", "">>
    /\ \E k \in 1..Len(row_contents) :
          /\ row_contents[k].row_content = <<LeadByte, ContinuationByte, "\t">>
          /\ Len(row_contents[k].render) = 9

-----------------------------------------------------------------------------
(* C12: on a READONLY buffer insert_char, delete_char and insert_newline    *)
(* change nothing but the status message: rows (raw, render, tags, flags),  *)
(* cursor and dirty are those of the call, and there is no panic.           *)

\* What a rejected operation returns
Rejected == [Cur EXCEPT !.status = ReadonlyMessage]

C12_ReadOnlyNoOps ==
    (edit_mode = "READONLY" /\ Editing) =>
        /\ ~Rejected.panic
        /\ \A ch \in BufChars : insert_char(Cur, ch) = Rejected
        /\ delete_char(Cur) = Rejected
        /\ insert_newline(Cur) = Rejected
        /\ LET m == move_cursor(cursor_controller, "Right", row_contents, TRUE)
           IN ~m.panic => delete_char([Cur EXCEPT !.cc = m.cc]) =
                              [Cur EXCEPT !.cc = m.cc, !.status = ReadonlyMessage]

\* A character typed, then Backspace, on a listing with a row: the message
\* is set, the listing is as it was loaded
C12_Witness ==
    /\ edit_mode = "READONLY"
    /\ key = <<"Backspace", "readonly">>
    /\ status_message = ReadonlyMessage
    /\ dirty = 0
    /\ ~crashed
    /\ row_contents = dir_rows(<<<<"a">>, <<"a">>>>)
    /\ cursor_controller.cursor_y = 1
    /\ cursor_controller.cursor_x = 1

-----------------------------------------------------------------------------
(* C13: dirty decreases only in a save that succeeded, which makes it 0;    *)
(* every insert_char, delete_char and insert_newline that edits makes it    *)
(* larger; a rejected operation (READONLY buffer, delete_char at the start  *)
(* of the buffer or behind its end, a save aborted or failed) leaves it as  *)
(* it is.                                                                   *)

\* The keys after which save_file has called EditorRows::save
SaveKeys == {<<"Ctrl-s", "save">>, <<"Enter", "saveas">>}

DirtyStep ==
    /\ dirty' < dirty => (dirty' = 0 /\ key' \in SaveKeys /\ disk'.result = "Ok")
    /\ (key' \in SaveKeys /\ disk'.result = "Ok") => dirty' = 0
    /\ (key' \in SaveKeys /\ disk'.result # "Ok") => dirty' = dirty
    /\ key' \in {<<"Esc", "saveas">>, <<"Ctrl-s", "prompt">>, <<"save", "">>} => dirty' = dirty
    /\ (key' = <<"Char", "">> /\ ~crashed') =>
           IF edit_mode = "READONLY" THEN dirty' = dirty ELSE dirty' > dirty
    /\ (key'[1] \in {"Backspace", "Delete"} /\ key'[2] \in {"in_row", "join"} /\ ~crashed') =>
           dirty' > dirty
    /\ (key'[1] \in {"Backspace", "Delete"} /\ key'[2] \in {"nothing", "readonly"}) =>
           dirty' = dirty
    /\ (key'[1] = "Enter" /\ key'[2] \in {"row", "split"} /\ ~crashed') => dirty' > dirty

C13_DirtyMonotone == [][DirtyStep]_vars

\* Two characters typed into the empty file and saved: the file holds them
\* and dirty is 0 again
C13_Witness ==
    /\ key = <<"Ctrl-s", "save">>
    /\ disk.result = "Ok"
    /\ disk.contents = <<"a", "a">>
    /\ dirty = 0

-----------------------------------------------------------------------------
(* C14: delete_char at column 0 of a row r > 0 takes one row from the       *)
(* buffer: row r-1 becomes its old content followed by that of row r, the   *)
(* other rows keep content and order, the cursor is on row r-1 at the old   *)
(* length of row r-1.  At row 0 column 0 and behind the last row            *)
(* delete_char changes nothing.                                             *)

\* The raw contents of the rows
Raw(rows) == [k \in 1..Len(rows) |-> rows[k].row_content]

C14_DeleteAtColumnZeroJoins ==
    (Editing /\ edit_mode = "NORMAL") =>
        LET y == cursor_controller.cursor_y
            x == cursor_controller.cursor_x
            old == Raw(row_contents)
            r == delete_char(Cur)
            new == Raw(r.rows)
        IN /\ (y = Len(old) \/ (y = 0 /\ x = 0)) => r = Cur
           /\ (x = 0 /\ 0 < y /\ y < Len(old)) =>
                 /\ ~r.panic
                 /\ Len(new) = Len(old) - 1
                 /\ new[y] = old[y] \o old[y + 1]
                 /\ \A k \in 1..(y - 1) : new[k] = old[k]
                 /\ \A k \in (y + 1)..Len(new) : new[k] = old[k + 1]
                 /\ r.cc.cursor_y = y - 1
                 /\ r.cc.cursor_x = Len(old[y])

\* Backspace at the start of the second of the rows "a" and tab
C14_Witness ==
    /\ key = <<"Backspace", "join">>
    /\ ~crashed
    /\ Raw(row_contents) = <<<<"a", "\t">>>>
    /\ dirty = 1
    /\ cursor_controller.cursor_y = 0
    /\ cursor_controller.cursor_x = 1

-----------------------------------------------------------------------------
(* C15: insert_newline at cursor (y, x) adds one row and keeps the text: at *)
(* x = 0 an empty row is inserted before row y, which follows unchanged;    *)
(* else row y keeps raw[0..x) and the new row y+1 holds raw[x..); the other *)
(* rows keep content and order; the cursor ends at (y+1, 0).                *)

\* What the claim says of insert_newline called in the current state
NewlineSplits ==
    LET y == cursor_controller.cursor_y
        x == cursor_controller.cursor_x
        old == Raw(row_contents)
        r == insert_newline(Cur)
        new == Raw(r.rows)
    IN /\ ~r.panic
       /\ Len(new) = Len(old) + 1
       /\ r.cc.cursor_y = y + 1
       /\ r.cc.cursor_x = 0
       /\ \A k \in 1..y : new[k] = old[k]
       /\ IF x = 0
          THEN /\ new[y + 1] = <<>>
               /\ \A k \in (y + 2)..Len(new) : new[k] = old[k - 1]
          ELSE /\ new[y + 1] = SubSeq(old[y + 1], 1, x)
               /\ new[y + 2] = SubSeq(old[y + 1], x + 1, Len(old[y + 1]))
               /\ \A k \in (y + 3)..Len(new) : new[k] = old[k - 1]

\* The cursor is on a row or on the line behind the last row
CursorOnBuffer == cursor_controller.cursor_y <= Len(row_contents)

\* The cursor column is the first byte of a character or the end of the row
CursorOnCharBoundary ==
    \/ cursor_controller.cursor_y >= Len(row_contents)
    \/ is_char_boundary(row_contents[cursor_controller.cursor_y + 1].row_content,
                        cursor_controller.cursor_x)

C15_NewlineSplitsRow ==
    (Editing /\ edit_mode = "NORMAL" /\ CursorOnBuffer) => NewlineSplits

\* The same where the cursor column is a character boundary: this holds
C15_NewlineSplitsAtCharBoundary ==
    (Editing /\ edit_mode = "NORMAL" /\ CursorOnBuffer /\ CursorOnCharBoundary)
        => NewlineSplits

\* The two-byte character typed: the cursor column is 1, inside it
C15_CursorInsideChar ==
    /\ key = <<"Char", "">>
    /\ ~crashed
    /\ Raw(row_contents) = <<<<LeadByte, ContinuationByte>>>>
    /\ cursor_controller.cursor_x = 1
    /\ insert_newline(Cur).panic

\* Enter in the middle of the row "a", tab
C15_SplitWitness ==
    /\ key = <<"Enter", "split">>
    /\ ~crashed
    /\ Raw(row_contents) = <<<<"a">>, <<"\t">>>>
    /\ cursor_controller.cursor_y = 1
    /\ cursor_controller.cursor_x = 0

-----------------------------------------------------------------------------
(* C16: insert_char at cursor (y, x) first appends an empty row exactly     *)
(* when y = rows.len(); then the cursor row holds its old content with ch   *)
(* inserted at x, the other rows are unchanged, and the cursor is on the    *)
(* same row one column further.                                             *)

\* What the claim says of insert_char(ch) called in the current state
InsertsChar(ch) ==
    LET y == cursor_controller.cursor_y
        x == cursor_controller.cursor_x
        old == Raw(row_contents)
        r == insert_char(Cur, ch)
        new == Raw(r.rows)
        base == IF y = Len(old) THEN <<>> ELSE old[y + 1]
    IN /\ ~r.panic
       /\ Len(new) = IF y = Len(old) THEN Len(old) + 1 ELSE Len(old)
       /\ new[y + 1] = SubSeq(base, 1, x) \o encode_utf8(ch) \o SubSeq(base, x + 1, Len(base))
       /\ \A k \in 1..Len(old) : k # y + 1 => new[k] = old[k]
       /\ r.cc.cursor_y = y
       /\ r.cc.cursor_x = x + 1

C16_InsertCharInserts ==
    (Editing /\ edit_mode = "NORMAL" /\ CursorOnBuffer) =>
        \A ch \in BufChars : InsertsChar(ch)

\* The same where the cursor column is a character boundary: this holds
C16_InsertCharAtCharBoundary ==
    (Editing /\ edit_mode = "NORMAL" /\ CursorOnBuffer /\ CursorOnCharBoundary) =>
        \A ch \in BufChars : InsertsChar(ch)

\* The two-byte character typed: at the cursor column no character can be
\* inserted
C16_InsertInsideChar ==
    /\ key = <<"Char", "">>
    /\ ~crashed
    /\ Raw(row_contents) = <<<<LeadByte, ContinuationByte>>>>
    /\ cursor_controller.cursor_x = 1
    /\ insert_char(Cur, "a").panic

\* A tab typed on the line behind the row "a": the row is appended
C16_AppendWitness ==
    /\ key = <<"Char", "">>
    /\ ~crashed
    /\ Raw(row_contents) = <<<<"a">>, <<"\t">>>>
    /\ cursor_controller.cursor_y = 1
    /\ cursor_controller.cursor_x = 1
    /\ dirty = 2

-----------------------------------------------------------------------------
(* C17: save() on a buffer without a file name fails with NoFileName: no    *)
(* file is written, and rows, file name and dirty are as before.  So is     *)
(* save_file when its prompt for a name was cancelled.                      *)

SaveWithoutNameStep ==
    /\ key' = <<"save", "">> =>
          /\ filename = NoName
          /\ disk'.result = "NoFileName"
          /\ disk'.name = disk.name
          /\ disk'.contents = disk.contents
          /\ UNCHANGED <<row_contents, filename, dirty>>
    /\ key' = <<"Esc", "saveas">> =>
          /\ filename = NoName
          /\ UNCHANGED <<disk, row_contents, filename, dirty>>

C17_SaveWithoutNameFails == [][SaveWithoutNameStep]_vars

\* save() on the unnamed buffer with unsaved text: no file exists
C17_Witness ==
    /\ key = <<"save", "">>
    /\ filename = NoName
    /\ dirty > 0
    /\ row_contents # <<>>
    /\ disk = [NoDisk EXCEPT !.result = "NoFileName"]

-----------------------------------------------------------------------------
(* C18: a save that succeeds writes the raw contents of the rows in row     *)
(* order with one newline between consecutive rows and none after the last  *)
(* row, returns the number of bytes written, and leaves the rows as they    *)
(* were.                                                                    *)

\* Lines with a newline between consecutive lines, built from the end
RECURSIVE JoinLines(_)
JoinLines(lines) ==
    IF lines = <<>> THEN <<>>
    ELSE IF Len(lines) = 1 THEN lines[1]
    ELSE JoinLines(SubSeq(lines, 1, Len(lines) - 1)) \o <<"\n">> \o lines[Len(lines)]

Newlines(s) == Cardinality({i \in 1..Len(s) : s[i] = "\n"})

SaveStep ==
    (key' \in SaveKeys /\ disk'.result = "Ok") =>
        /\ disk'.name = filename'
        /\ disk'.contents = JoinLines(Raw(row_contents))
        /\ Newlines(disk'.contents) = Max(Len(row_contents) - 1, 0)
        /\ (row_contents # <<>> /\ row_contents[Len(row_contents)].row_content # <<>>) =>
               disk'.contents[Len(disk'.contents)] # "\n"
        /\ disk'.len = Len(disk'.contents)
        /\ row_contents' = row_contents

C18_SaveWritesJoinedRows == [][SaveStep]_vars

\* The rows "a" and tab saved under the name typed before: three bytes
C18_Witness ==
    /\ key = <<"Ctrl-s", "save">>
    /\ filename = "n"
    /\ disk = [name |-> "n", contents |-> <<"a", "\n", "\t">>, result |-> "Ok", len |-> 3]
    /\ Raw(row_contents) = <<<<"a">>, <<"\t">>>>
    /\ dirty = 0

-----------------------------------------------------------------------------
(* C19: in every state reached by direction keys and by insert_char,        *)
(* delete_char and insert_newline from any buffer, the empty one included,  *)
(* cursor_y is at most rows.len(), cursor_x is at most the length of the    *)
(* cursor's row, and cursor_x is 0 when cursor_y = rows.len().              *)

CursorInBounds ==
    LET y == cursor_controller.cursor_y
        x == cursor_controller.cursor_x
    IN /\ 0 <= y /\ y <= Len(row_contents)
       /\ 0 <= x
       /\ y < Len(row_contents) => x <= Len(row_contents[y + 1].row_content)
       /\ y = Len(row_contents) => x = 0

C19_CursorInBounds == CursorInBounds

\* The same for a buffer that has a row: this holds
C19_CursorInBoundsOfRows == row_contents # <<>> => CursorInBounds

\* Down on the empty buffer, in a build without overflow checks
C19_CursorBelowEmptyBuffer ==
    /\ key = <<"Down", "">>
    /\ ~crashed
    /\ row_contents = <<>>
    /\ cursor_controller.cursor_y = 1

\* Down on the empty buffer, in a build with overflow checks: a panic
C19_DownPanics ==
    /\ key = <<"Down", "">>
    /\ crashed
    /\ row_contents = <<>>

\* Enter on the empty buffer: the cursor is on the line behind the row
C19_CursorBehindLastRow ==
    /\ key = <<"Enter", "row">>
    /\ Len(row_contents) = 1
    /\ cursor_controller.cursor_y = 1
    /\ cursor_controller.cursor_x = 0

-----------------------------------------------------------------------------
(* C20: after scroll() the cursor row is in [row_offset, row_offset +       *)
(* screen_rows) and render_x is in [column_offset, column_offset +          *)
(* screen_columns), whatever the offsets were before the call, a row_offset *)
(* behind the buffer that a search match sets included.                     *)

\* The offsets scroll() is called with, up to
MaxOffset == 6

InWindow(cc) ==
    /\ cc.row_offset <= cc.cursor_y
    /\ cc.cursor_y < cc.row_offset + ScreenRows
    /\ cc.column_offset <= cc.render_x
    /\ cc.render_x < cc.column_offset + ScreenCols

C20_CursorInWindowAfterScroll ==
    /\ ScreenRows >= 1 /\ ScreenCols >= 1
    /\ InWindow(cursor_controller)
    /\ \A row_offset \in 0..MaxOffset, column_offset \in 0..MaxOffset :
          InWindow(scroll([cursor_controller EXCEPT !.row_offset = row_offset,
                                                    !.column_offset = column_offset],
                          row_contents))

\* A match on the second of two rows: find_callback set row_offset to 2, the
\* scroll() of the next refresh took it back to the cursor row
C20_Witness ==
    /\ mode = "find"
    /\ ~crashed
    /\ Len(row_contents) = 2
    /\ \E p \in 1..Len(row_contents[2].highlight) :
          row_contents[2].highlight[p] = "SearchMatch"
    /\ cursor_controller.cursor_y = 1
    /\ cursor_controller.row_offset = 1

-----------------------------------------------------------------------------
(* The cursor moved: the unnamed buffer and files of up to MoveRows rows of *)
(* 0, 1 and 3 characters, the direction keys, PageUp and PageDown, and      *)
(* Enter, which on the unnamed buffer puts the cursor on the line behind    *)
(* the last row.                                                            *)

MoveRows == 4

MoveLines == {<<>>, <<"a">>, <<"a", "\t", "a">>}
Pages == {"PageUp", "PageDown"}

InitMove ==
    \/ InitUnnamed
    \/ \E lines \in SeqsUpTo(MoveLines, MoveRows) :
          Opened(from_file_lines(<<>>, lines, "None"), "f.txt", "FILE", "NORMAL", "None")

NextMove ==
    \/ \E direction \in Directions : KeyMove(direction)
    \/ \E val \in Pages : KeyPage(val)
    \/ KeyEnter

SpecMove == InitMove /\ [][NextMove]_vars

-----------------------------------------------------------------------------
(* C21: every move (Up, Down, Left, Right, Home, End, PageUp, PageDown)     *)
(* completes in every reachable state, the empty buffer and a cursor on the *)
(* line behind the last row included: no move reads a row outside           *)
(* [0, rows.len()) and no index computation underflows.                     *)

\* No move panics when called in the current state, whatever the build
MovesComplete ==
    \A overflow_checks \in BOOLEAN :
        /\ \A direction \in Directions :
              ~move_cursor(cursor_controller, direction, row_contents, overflow_checks).panic
        /\ \A val \in Pages :
              ~page_move(cursor_controller, val, row_contents, overflow_checks).panic

C21_MovesComplete == (Editing /\ CursorOnBuffer) => MovesComplete

\* The same with the cursor on a row: this holds
C21_MovesCompleteOnRow ==
    (Editing /\ cursor_controller.cursor_y < Len(row_contents)) => MovesComplete

\* Right on the line behind the only row: get_row(1) of one row
C21_RightBehindLastRow ==
    /\ key = <<"Right", "">>
    /\ crashed
    /\ Len(row_contents) = 1
    /\ cursor_controller.cursor_y = 1

\* Right on the empty buffer: get_row(0) of no rows
C21_RightOnEmptyBuffer ==
    /\ key = <<"Right", "">>
    /\ crashed
    /\ row_contents = <<>>
    /\ cursor_controller.cursor_y = 0

\* PageDown on the empty buffer, in a build with overflow checks
C21_PageDownOnEmptyBuffer ==
    /\ key = <<"PageDown", "">>
    /\ crashed
    /\ row_contents = <<>>
    /\ cursor_controller.cursor_y = 0

-----------------------------------------------------------------------------
(* C22: for every sequence of query edits and arrow keys of a search, every *)
(* row the search scans is a row of the buffer and every column range it    *)
(* uses on the row's render and highlight lies within the row: the stored   *)
(* y_index and x_index are normalized against the row scanned before use.   *)

\* The queries the next key of the prompt can search for
NextQueries ==
    {input, SubSeq(input, 1, Len(input) - 1)}
        \cup (IF Len(input) < MaxInput THEN {Append(input, ch) : ch \in FindChars} ELSE {})

\* find_callback called in the current state indexes nothing out of bounds
SearchInBounds ==
    /\ \A direction \in FindArrows : ~find_callback(CurFind, input, direction).panic
    /\ \A text \in NextQueries : ~find_callback(CurFind, text, "Char").panic

C22_SearchIndicesInBounds == Prompting => SearchInBounds

\* The same where the stored x_index is a column of the row y_index: this
\* holds
C22_SearchInBoundsOfMatchRow ==
    (/\ Prompting
     /\ search_index.y_index < Len(row_contents)
     /\ search_index.x_index <= Len(row_contents[search_index.y_index + 1].render))
        => SearchInBounds

\* Rows "aba" and "b": the second "a" found (x_index 2), the query "aa" not
\* found (y_index left at the last row), then Left: render[..2] of "b"
C22_LeftPanics ==
    /\ key = <<"Left", "prompt">>
    /\ crashed
    /\ input = <<"a", "a">>
    /\ Raw(row_contents) = <<<<"a", "b", "a">>, <<"b">>>>
    /\ search_index.y_index = 1
    /\ search_index.x_index = 2

-----------------------------------------------------------------------------
(* C23: a search key that sets no direction (a key that edits the query)    *)
(* searches from the cursor: the match selected is the first occurrence of  *)
(* the query at or after the cursor's row, not one in a row before it.      *)

\* The row's render contains the query
Contains(row, text) == str_find(row.render, 0, text) >= 0

\* The call found a match
Matched(r) == ~r.panic /\ r.si.previous_highlight # <<>>

\* The match of a fresh search for text is in the first row at or after row
\* from that contains text, at its first occurrence
FreshSearchFrom(from, text) ==
    LET r == find_callback(CurFind, text, "Char")
    IN Matched(r) =>
          /\ r.si.y_index >= from
          /\ Contains(row_contents[r.si.y_index + 1], text)
          /\ \A k \in from..(r.si.y_index - 1) : ~Contains(row_contents[k + 1], text)
          /\ r.si.x_index = str_find(row_contents[r.si.y_index + 1].render, 0, text)
          /\ r.cc.cursor_y = r.si.y_index

C23_FreshSearchFromCursor ==
    Prompting => \A text \in NextQueries : FreshSearchFrom(cursor_controller.cursor_y, text)

\* What the loop does: the search starts at row 0.  This holds
C23_FreshSearchFromTop ==
    Prompting => \A text \in NextQueries : FreshSearchFrom(0, text)

\* Rows "aba", "aba", the cursor on the match of "a" in row 1: the query
\* "ab" is found in row 0
C23_MatchAboveCursor ==
    /\ Prompting
    /\ Raw(row_contents) = <<<<"a", "b", "a">>, <<"a", "b", "a">>>>
    /\ input = <<"a">>
    /\ key = <<"Down", "prompt">>
    /\ cursor_controller.cursor_y = 1
    /\ find_callback(CurFind, <<"a", "b">>, "Char").cc.cursor_y = 0

-----------------------------------------------------------------------------
(* C24: a search key that finds no match leaves the cursor and the stored   *)
(* match indices y_index and x_index exactly as they were before the key.   *)

NoMatchKeepsCursor(r) ==
    (~r.panic /\ ~Matched(r)) => r.cc = cursor_controller

NoMatchKeepsIndices(r) ==
    (~r.panic /\ ~Matched(r)) =>
        /\ r.si.y_index = search_index.y_index
        /\ r.si.x_index = search_index.x_index

C24_NoMatchChangesNothing ==
    Prompting =>
        /\ \A direction \in FindArrows :
              LET r == find_callback(CurFind, input, direction)
              IN NoMatchKeepsCursor(r) /\ NoMatchKeepsIndices(r)
        /\ \A text \in NextQueries :
              LET r == find_callback(CurFind, text, "Char")
              IN NoMatchKeepsCursor(r) /\ NoMatchKeepsIndices(r)

\* The same without the indices after a key that edits the query: this holds
C24_NoMatchKeepsCursorAndArrowIndices ==
    Prompting =>
        /\ \A direction \in FindArrows :
              LET r == find_callback(CurFind, input, direction)
              IN NoMatchKeepsCursor(r) /\ NoMatchKeepsIndices(r)
        /\ \A text \in NextQueries :
              NoMatchKeepsCursor(find_callback(CurFind, text, "Char"))

\* Rows "aba", "b", the match of "a" in row 0; the query "aa" is not found
\* and y_index is 1
C24_IndexMovedWithoutMatch ==
    /\ Prompting
    /\ key = <<"Char", "prompt">>
    /\ Raw(row_contents) = <<<<"a", "b", "a">>, <<"b">>>>
    /\ input = <<"a", "a">>
    /\ search_index.previous_highlight = <<>>
    /\ search_index.y_index = 1
    /\ cursor_controller.cursor_y = 0

\* Down on the last row with a match: nothing found, nothing changed
C24_ArrowWithoutMatch ==
    /\ Prompting
    /\ key = <<"Down", "prompt">>
    /\ input = <<"b">>
    /\ Raw(row_contents) = <<<<"a", "b", "a">>, <<"b">>>>
    /\ search_index.previous_highlight = <<>>
    /\ search_index.y_index = 1
    /\ search_index.x_index = 0
    /\ cursor_controller.cursor_y = 1

-----------------------------------------------------------------------------
(* The search session in a file of no language: the rows are loaded without *)
(* a rule table, so update_syntax never runs and highlight stays empty.     *)

InitFindPlain ==
    \E lines \in SeqsUpTo(FindLines, FindRows) :
        Opened(from_file_lines(<<>>, lines, "None"), "f.txt", "FILE", "NORMAL", "None")

SpecFindPlain == InitFindPlain /\ [][NextFind]_vars

-----------------------------------------------------------------------------
(* C25: on a match at render column k of row r for the query q, the tags    *)
(* k .. k+len(q)-1 of row r become SearchMatch and every other tag of every *)
(* row has its value from before the overlay; the tags of row r from before *)
(* the overlay are saved; the cursor is on row r at the raw column of       *)
(* render column k; and row_offset is rows.len(), so that the next scroll() *)
(* has row r in the viewport.                                               *)

\* The raw column whose rendering covers render column k (0 if there is
\* none, as render column k is behind the row)
RawColumnOf(row, k) ==
    LET covering == {c \in 0..(Len(row.row_content) - 1) :
                        /\ get_render_x(c, row) <= k
                        /\ k < get_render_x(c + 1, row)}
    IN IF covering = {} THEN 0 ELSE CHOOSE c \in covering : TRUE

\* r is the state after a match for text was overlaid.  find_highlight holds
\* the tags of the rows from before the search, which no search key edits.
MatchOverlaid(r, text) ==
    LET y == r.si.y_index
        k == r.si.x_index
    IN /\ ~r.panic
       /\ y < Len(row_contents)
       /\ SubSeq(row_contents[y + 1].render, k + 1, k + Len(text)) = text
       /\ \A p \in (k + 1)..(k + Len(text)) : p <= Len(r.rows[y + 1].highlight)
       /\ \A j \in 1..Len(row_contents) :
             /\ Len(r.rows[j].highlight) = Len(find_highlight[j])
             /\ \A p \in 1..Len(r.rows[j].highlight) :
                   r.rows[j].highlight[p] =
                       IF j = y + 1 /\ k < p /\ p <= k + Len(text)
                       THEN "SearchMatch" ELSE find_highlight[j][p]
       /\ r.si.previous_highlight = <<[index |-> y, highlight |-> find_highlight[y + 1]]>>
       /\ r.cc.cursor_y = y
       /\ r.cc.cursor_x = RawColumnOf(row_contents[y + 1], k)
       /\ r.cc.row_offset = Len(row_contents)
       /\ InWindow(scroll(r.cc, r.rows))

\* A key that edits the query finds a match when a row contains the query;
\* an arrow key that found a match has overlaid it
C25_MatchOverlay ==
    Prompting =>
        /\ \A text \in NextQueries :
              (\E j \in 1..Len(row_contents) : Contains(row_contents[j], text)) =>
                  MatchOverlaid(find_callback(CurFind, text, "Char"), text)
        /\ \A direction \in FindArrows :
              LET r == find_callback(CurFind, input, direction)
              IN Matched(r) => MatchOverlaid(r, input)

\* The query "b" typed into the search of a file of no language whose
\* row "aba" contains it: the overlay indexes the empty highlight
C25_MatchInPlainFile ==
    /\ key = <<"Char", "prompt">>
    /\ crashed
    /\ syntax_highlight = "None"
    /\ input = <<>>
    /\ Raw(row_contents) = <<<<"a", "b", "a">>>>
    /\ row_contents[1].highlight = <<>>
    /\ find_callback(CurFind, <<"b">>, "Char").panic

\* In a Rust file: "b" found at column 1 of the second row "aba"
C25_MatchInRustFile ==
    /\ key = <<"Char", "prompt">>
    /\ Prompting
    /\ syntax_highlight = "Rust"
    /\ input = <<"b">>
    /\ Raw(row_contents) = <<<<>>, <<"a", "b", "a">>>>
    /\ row_contents[2].highlight = <<"Normal", "SearchMatch", "Normal">>
    /\ cursor_controller.cursor_y = 1
    /\ cursor_controller.cursor_x = 1
    /\ cursor_controller.row_offset = 1

-----------------------------------------------------------------------------
(* The search session in Rust files of up to SearchRows rows, each "b",     *)
(* "aba" or empty, so that a row between two rows with the query can lack   *)
(* it and a row can hold the query twice.                                   *)

SearchRows == 3

SearchLines == {<<>>, <<"b">>, <<"a", "b", "a">>}

InitSearch ==
    \E lines \in SeqsUpTo(SearchLines, SearchRows) :
        Opened(from_file_lines(<<>>, lines, "Rust"), "f.rs", "FILE", "NORMAL", "Rust")

SpecSearch == InitSearch /\ [][NextFind]_vars

-----------------------------------------------------------------------------
(* C26: after Down the match is in the lowest row above the index y_index   *)
(* of the current match row whose render contains the query, after Up in    *)
(* the highest row below it (row 0 included), at the first occurrence in    *)
(* that row; the scan does not wrap: without such a row there is no match.  *)

\* The rows of the set that contain the query
RowsContaining(indices, text) ==
    {j \in indices : j >= 0 /\ j < Len(row_contents) /\ Contains(row_contents[j + 1], text)}

\* The key found its match in row target, or none if target is -1
VerticalMatch(r, target) ==
    /\ ~r.panic
    /\ IF target = -1 THEN ~Matched(r)
       ELSE /\ Matched(r)
            /\ r.si.y_index = target
            /\ r.si.x_index = str_find(row_contents[target + 1].render, 0, input)
            /\ r.cc.cursor_y = target

C26_VerticalSearchNearestRow ==
    Prompting =>
        LET below == RowsContaining((search_index.y_index + 1)..(Len(row_contents) - 1), input)
            above == RowsContaining(0..(search_index.y_index - 1), input)
        IN /\ VerticalMatch(find_callback(CurFind, input, "Down"),
                            IF below = {} THEN -1
                            ELSE CHOOSE j \in below : \A i \in below : j <= i)
           /\ VerticalMatch(find_callback(CurFind, input, "Up"),
                            IF above = {} THEN -1
                            ELSE CHOOSE j \in above : \A i \in above : j >= i)

\* Rows "aba", "b", "aba" and the query "a": Down from the match in row 0
\* passes row 1 and finds row 2
C26_Witness ==
    /\ Prompting
    /\ key = <<"Down", "prompt">>
    /\ input = <<"a">>
    /\ Raw(row_contents) = <<<<"a", "b", "a">>, <<"b">>, <<"a", "b", "a">>>>
    /\ search_index.y_index = 2
    /\ search_index.x_index = 0
    /\ cursor_controller.cursor_y = 2
    /\ row_contents[3].highlight[1] = "SearchMatch"

\* Up from the match in row 2 passes row 1 and finds row 0
C26_WitnessUp ==
    /\ Prompting
    /\ key = <<"Up", "prompt">>
    /\ input = <<"a">>
    /\ Raw(row_contents) = <<<<"a", "b", "a">>, <<"b">>, <<"a", "b", "a">>>>
    /\ search_index.y_index = 0
    /\ cursor_controller.cursor_y = 0
    /\ row_contents[1].highlight[1] = "SearchMatch"
    /\ find_callback(CurFind, input, "Up").si.previous_highlight = <<>>

-----------------------------------------------------------------------------
(* C27: Left and Right search the current match row only: Right selects the *)
(* first occurrence of the query that starts at render column x_index + 1   *)
(* or later, Left the last occurrence that ends at or before x_index; if    *)
(* there is none, y_index and x_index stay as they were.                    *)

\* The stored indices are a position of a row: that of the last match
IndicesOnRow ==
    /\ search_index.y_index < Len(row_contents)
    /\ search_index.x_index <= Len(row_contents[search_index.y_index + 1].render)

\* The columns of the match row at which the query occurs
Occurrences(text) ==
    LET render == row_contents[search_index.y_index + 1].render
    IN {i \in 0..(Len(render) - Len(text)) : SubSeq(render, i + 1, i + Len(text)) = text}

\* The key selected column target of the match row, or none if it is -1
HorizontalMatch(r, target) ==
    /\ ~r.panic
    /\ r.si.y_index = search_index.y_index
    /\ IF target = -1
       THEN r.si.x_index = search_index.x_index
       ELSE /\ Matched(r)
            /\ r.si.x_index = target
            /\ r.cc.cursor_y = search_index.y_index

\* What the claim says of Right and Left pressed in the current state
HorizontalSearch ==
        LET after == {i \in Occurrences(input) : i >= search_index.x_index + 1}
            before == {i \in Occurrences(input) : i + Len(input) <= search_index.x_index}
        IN /\ HorizontalMatch(find_callback(CurFind, input, "Right"),
                              IF after = {} THEN -1
                              ELSE CHOOSE i \in after : \A j \in after : i <= j)
           /\ HorizontalMatch(find_callback(CurFind, input, "Left"),
                              IF before = {} THEN -1
                              ELSE CHOOSE i \in before : \A j \in before : i >= j)

C27_HorizontalSearchInMatchRow ==
    (Prompting /\ search_index.y_index < Len(row_contents)) => HorizontalSearch

\* The same where x_index is a column of the row y_index: this holds
C27_HorizontalSearchOnRow == (Prompting /\ IndicesOnRow) => HorizontalSearch

\* Rows "aba", "b": after the match of "a" at column 2 of row 0 and the
\* query "aa" that is not found, Left scans row 1 with x_index 2
C27_LeftLeavesMatchRow ==
    /\ Prompting
    /\ key = <<"Char", "prompt">>
    /\ input = <<"a", "a">>
    /\ Raw(row_contents) = <<<<"a", "b", "a">>, <<"b">>>>
    /\ cursor_controller.cursor_y = 0
    /\ search_index.y_index = 1
    /\ search_index.x_index = 2
    /\ find_callback(CurFind, input, "Left").panic

\* Rows "aba", "aba" and the query "a": Right from column 0 of row 1 finds
\* column 2 of row 1, and a further Right finds nothing
C27_RightInMatchRow ==
    /\ Prompting
    /\ key = <<"Right", "prompt">>
    /\ input = <<"a">>
    /\ Raw(row_contents) = <<<<"a", "b", "a">>, <<"a", "b", "a">>>>
    /\ search_index.y_index = 1
    /\ search_index.x_index = 2
    /\ cursor_controller.cursor_y = 1
    /\ cursor_controller.cursor_x = 2
    /\ row_contents[2].highlight = <<"Normal", "Normal", "SearchMatch">>
    /\ ~Matched(find_callback(CurFind, input, "Right"))

-----------------------------------------------------------------------------
(* C28: Up and Down change cursor_y by at most one and keep it in           *)
(* [0, rows.len() - 1]: Up on row 0 leaves it 0, Down on the last row and   *)
(* in a buffer with no rows leaves it unchanged; afterwards cursor_x is the *)
(* minimum of the old cursor_x and the raw length of the new row.           *)

\* The raw length of row y, 0 behind the last row
RowLen(y) == IF y < Len(row_contents) THEN Len(row_contents[y + 1].row_content) ELSE 0

\* The move ended on row y with the column clamped to it
MovedToRow(m, y) ==
    /\ ~m.panic
    /\ m.cc.cursor_y = y
    /\ m.cc.cursor_x = Min(cursor_controller.cursor_x, RowLen(y))

UpDownClamped ==
    LET y == cursor_controller.cursor_y
        n == Len(row_contents)
    IN \A overflow_checks \in BOOLEAN :
          /\ MovedToRow(move_cursor(cursor_controller, "Up", row_contents, overflow_checks),
                        IF y = 0 THEN 0 ELSE y - 1)
          /\ MovedToRow(move_cursor(cursor_controller, "Down", row_contents, overflow_checks),
                        IF y + 1 < n THEN y + 1 ELSE y)

C28_UpDownClamped == (Editing /\ CursorOnBuffer) => UpDownClamped

\* The same for a buffer that has a row: this holds
C28_UpDownClampedOfRows == (Editing /\ CursorOnBuffer /\ row_contents # <<>>) => UpDownClamped

\* Down from the end of the row "a\ta" to the row "a": the column is 1
C28_ColumnClamped ==
    /\ key = <<"Down", "">>
    /\ ~crashed
    /\ Raw(row_contents) = <<<<"a", "\t", "a">>, <<"a">>>>
    /\ cursor_controller.cursor_y = 1
    /\ cursor_controller.cursor_x = 1
    /\ move_cursor(cursor_controller, "Down", row_contents, TRUE).cc = cursor_controller

\* The empty buffer, on which Down panics or moves the cursor to row 1
C28_EmptyBuffer ==
    /\ Editing
    /\ row_contents = <<>>
    /\ cursor_controller.cursor_y = 0
    /\ move_cursor(cursor_controller, "Down", row_contents, TRUE).panic
    /\ move_cursor(cursor_controller, "Down", row_contents, FALSE).cc.cursor_y = 1

-----------------------------------------------------------------------------
(* C29: Left at column 0 of a row > 0 goes to the end of the row above, at  *)
(* (0, 0) it changes nothing, else it decrements the column; Right at the   *)
(* end of a row goes to column 0 of the next row if there is one and        *)
(* changes nothing on the last row, else it increments the column.  Right   *)
(* then Left, and Left then Right, from a position the first move changed,  *)
(* come back to the position.                                               *)

Position(cc) == <<cc.cursor_y, cc.cursor_x>>

Left(cc) == move_cursor(cc, "Left", row_contents, TRUE)
Right(cc) == move_cursor(cc, "Right", row_contents, TRUE)

\* The second move takes the cursor back where the first one took it from
ComesBack(first, second) ==
    (~first.panic /\ Position(first.cc) # Position(cursor_controller)) =>
        (~second.panic /\ Position(second.cc) = Position(cursor_controller))

LeftRightMoves ==
    LET y == cursor_controller.cursor_y
        x == cursor_controller.cursor_x
        n == Len(row_contents)
        left == Left(cursor_controller)
        right == Right(cursor_controller)
    IN /\ ~left.panic
       /\ Position(left.cc) = IF x > 0 THEN <<y, x - 1>>
                              ELSE IF y > 0 THEN <<y - 1, RowLen(y - 1)>>
                              ELSE <<0, 0>>
       /\ ~right.panic
       /\ Position(right.cc) = IF x < RowLen(y) THEN <<y, x + 1>>
                               ELSE IF y + 1 < n THEN <<y + 1, 0>>
                               ELSE <<y, x>>
       /\ ComesBack(right, Left(right.cc))
       /\ ComesBack(left, Right(left.cc))

C29_LeftRightMoves == (Editing /\ CursorOnBuffer) => LeftRightMoves

\* The same with the cursor on a row: this holds
C29_LeftRightMovesOnRow ==
    (Editing /\ cursor_controller.cursor_y < Len(row_contents)) => LeftRightMoves

\* Enter on the empty buffer: from the line behind the row, Right panics,
\* and Left goes to (0, 0), from which Right does not come back
C29_BehindLastRow ==
    /\ key = <<"Enter", "row">>
    /\ Editing
    /\ Raw(row_contents) = <<<<>>>>
    /\ Position(cursor_controller) = <<1, 0>>
    /\ Right(cursor_controller).panic
    /\ Position(Left(cursor_controller).cc) = <<0, 0>>
    /\ Position(Right(Left(cursor_controller).cc).cc) = <<0, 0>>

\* Left from the start of the row "a" below the row "a\ta": the end of the
\* row above, and Right comes back
C29_LeftToRowAbove ==
    /\ key = <<"Left", "">>
    /\ ~crashed
    /\ Raw(row_contents) = <<<<"a", "\t", "a">>, <<"a">>>>
    /\ Position(cursor_controller) = <<0, 3>>
    /\ Position(Right(cursor_controller).cc) = <<1, 0>>

-----------------------------------------------------------------------------
(* C30: PageUp ends on row max(row_offset - viewport rows, 0), PageDown on  *)
(* row min(row_offset + 2 * viewport rows - 1, rows - 1), and both end on   *)
(* a row of the buffer, whatever the number of rows.                        *)

PageEnds(overflow_checks) ==
    LET n == Len(row_contents)
        ro == cursor_controller.row_offset
        up == page_move(cursor_controller, "PageUp", row_contents, overflow_checks)
        down == page_move(cursor_controller, "PageDown", row_contents, overflow_checks)
    IN /\ ~up.panic
       /\ up.cc.cursor_y = Max(ro - ScreenRows, 0)
       /\ up.cc.cursor_y \in 0..(n - 1)
       /\ ~down.panic
       /\ down.cc.cursor_y = Min(ro + 2 * ScreenRows - 1, n - 1)
       /\ down.cc.cursor_y \in 0..(n - 1)

C30_PageEnds ==
    (Editing /\ CursorOnBuffer) => \A overflow_checks \in BOOLEAN : PageEnds(overflow_checks)

\* The same for a buffer that has a row: this holds
C30_PageEndsOfRows ==
    (Editing /\ CursorOnBuffer /\ row_contents # <<>>) =>
        \A overflow_checks \in BOOLEAN : PageEnds(overflow_checks)

\* PageDown from the top of three rows ends on the last row, not on row 3
C30_PageDownClamped ==
    /\ key = <<"PageDown", "">>
    /\ ~crashed
    /\ Len(row_contents) = 3
    /\ cursor_controller.cursor_y = 2
    /\ cursor_controller.row_offset = 1

\* PageDown from the top of five rows ends on row 3, above the last row
C30_PageDownInsideBuffer ==
    /\ key = <<"PageDown", "">>
    /\ ~crashed
    /\ Len(row_contents) = 5
    /\ cursor_controller.cursor_y = 2 * ScreenRows - 1
    /\ cursor_controller.row_offset = ScreenRows

\* PageUp in a window that begins below row 2 ends below row 0
C30_PageUpFromOffset ==
    /\ key = <<"PageUp", "">>
    /\ ~crashed
    /\ row_contents # <<>>
    /\ cursor_controller.cursor_y >= 1
    /\ cursor_controller.row_offset = cursor_controller.cursor_y

\* No rows: PageDown panics or leaves the cursor on row 2 * viewport rows - 1,
\* PageUp leaves it on row 0, and neither is a row of the buffer
C30_NoRows ==
    /\ Editing
    /\ row_contents = <<>>
    /\ cursor_controller.row_offset = 0
    /\ page_move(cursor_controller, "PageDown", row_contents, TRUE).panic
    /\ page_move(cursor_controller, "PageDown", row_contents, FALSE).cc.cursor_y
           = 2 * ScreenRows - 1
    /\ page_move(cursor_controller, "PageUp", row_contents, TRUE).cc.cursor_y = 0

-----------------------------------------------------------------------------
(* C31: scroll moves the window as little as possible: an offset is kept    *)
(* when the cursor row (render column) is inside the window, becomes the    *)
(* cursor value when the cursor is above (left of) the window, and becomes  *)
(* cursor - viewport size + 1 when it is below (right of) it.  scroll       *)
(* leaves cursor_y and cursor_x alone, and a second scroll changes nothing. *)

\* The offset after scroll, of a window of the given size at offset off
MinimalOffset(off, cursor, size) ==
    IF cursor < off THEN cursor
    ELSE IF cursor >= off + size THEN cursor - size + 1
    ELSE off

ScrollMinimal(cc) ==
    LET s == scroll(cc, row_contents)
    IN /\ s.row_offset = MinimalOffset(cc.row_offset, cc.cursor_y, ScreenRows)
       /\ s.column_offset = MinimalOffset(cc.column_offset, s.render_x, ScreenCols)
       /\ s.cursor_y = cc.cursor_y
       /\ s.cursor_x = cc.cursor_x
       /\ scroll(s, row_contents) = s

C31_ScrollMinimal ==
    \A row_offset \in 0..MaxOffset, column_offset \in 0..MaxOffset :
        ScrollMinimal([cursor_controller EXCEPT !.row_offset = row_offset,
                                                !.column_offset = column_offset])

\* Down has taken the cursor below the window and the window followed it
C31_WindowFollowsDown ==
    /\ key = <<"Down", "">>
    /\ ~crashed
    /\ row_contents # <<>>
    /\ cursor_controller.cursor_y = 3
    /\ cursor_controller.row_offset = 3 - ScreenRows + 1

\* Up has taken the cursor above the window and the window begins on its row
C31_WindowFollowsUp ==
    /\ key = <<"Up", "">>
    /\ ~crashed
    /\ row_contents # <<>>
    /\ cursor_controller.cursor_y = 1
    /\ cursor_controller.row_offset = 1
    /\ Len(row_contents) = 4

\* End on the row "a\ta": render column 9, and the window of ScreenCols
\* columns ends on it
C31_WindowFollowsRight ==
    /\ key = <<"End", "">>
    /\ ~crashed
    /\ cursor_controller.cursor_y < Len(row_contents)
    /\ cursor_controller.render_x = TAB_STOP + 1
    /\ cursor_controller.column_offset = TAB_STOP + 1 - ScreenCols + 1

\* Home after it: the window is back on column 0
C31_WindowFollowsLeft ==
    /\ key = <<"Home", "">>
    /\ ~crashed
    /\ Raw(row_contents) = <<<<"a", "\t", "a">>>>
    /\ cursor_controller.render_x = 0
    /\ cursor_controller.column_offset = 0
    /\ scroll([cursor_controller EXCEPT !.column_offset = MaxOffset],
              row_contents).column_offset = 0

-----------------------------------------------------------------------------
(* SpecLex: Rust files whose last line is any text of up to LexLen          *)
(* characters over quotes, the backslash and the characters of the comment  *)
(* tokens, read by from_file below no row or below a row that leaves a      *)
(* multiline comment open.                                                  *)

LexLen == 5
LexRows == 2

LexChars == {"/", "*", "\"", "'", "\\", "a"}
LexOpenerLines == {<<"/", "*">>}

LexFiles ==
    {prefix \o <<line>> : prefix \in SeqsUpTo(LexOpenerLines, LexRows - 1),
                          line \in SeqsUpTo(LexChars, LexLen)}

InitLex ==
    \E file \in LexFiles :
        /\ pending = file
        /\ row_contents = <<>>
        /\ mode = "load"
        /\ filename = "f.rs"
        /\ file_type = "FILE"
        /\ edit_mode = "NORMAL"
        /\ syntax_highlight = select_syntax("f.rs")
        /\ dirty = 0
        /\ status_message = "HELP: Ctrl-h"
        /\ cursor_controller = CursorController_new
        /\ search_index = SearchIndex_new
        /\ input = <<>>
        /\ find_cursor = CursorController_new
        /\ find_highlight = <<>>
        /\ key = <<"None", "">>
        /\ crashed = FALSE
        /\ disk = NoDisk

SpecLex == InitLex /\ [][NextLoad]_vars

-----------------------------------------------------------------------------
(* C32: the lexical contexts of a row scan exclude each other: a            *)
(* single-line comment token counts only outside strings and outside        *)
(* multiline comments, and then the rest of the line is Comment and the     *)
(* row's flag stays false; a multiline start token inside a string opens    *)
(* no comment; a quote or a single-line comment token inside a multiline    *)
(* comment opens no string and no line comment.                             *)

InMultiline == "multiline"
InLine == "line"
InCode == "code"

\* The context of every character of text from the 0-based position i on:
\* InMultiline, InLine, the quote of the string it is in, or InCode
RECURSIVE contexts(_, _, _, _)
contexts(text, i, open, quote) ==
    IF i >= Len(text) THEN <<>>
    ELSE LET c == text[i + 1]
         IN IF open
            THEN IF occurrence(text, i, <<"*", "/">>)
                 THEN <<InMultiline, InMultiline>> \o contexts(text, i + 2, FALSE, NoString)
                 ELSE <<InMultiline>> \o contexts(text, i + 1, TRUE, NoString)
            ELSE IF quote # NoString
            THEN IF c = "\\" /\ i + 1 < Len(text)
                 THEN <<quote, quote>> \o contexts(text, i + 2, FALSE, quote)
                 ELSE <<quote>> \o contexts(text, i + 1, FALSE,
                                            IF c = quote THEN NoString ELSE quote)
            ELSE IF occurrence(text, i, <<"/", "/">>)
                 THEN Repeat(InLine, Len(text) - i)
            ELSE IF occurrence(text, i, <<"/", "*">>)
                 THEN <<InMultiline, InMultiline>> \o contexts(text, i + 2, TRUE, NoString)
            ELSE IF c \in {"\"", "'"}
                 THEN <<c>> \o contexts(text, i + 1, FALSE, c)
            ELSE <<InCode>> \o contexts(text, i + 1, FALSE, NoString)

\* The tag of a character in the context ctx
TagOfContext(tag, ctx) ==
    IF ctx = InMultiline THEN tag = "MultilineComment"
    ELSE IF ctx = InLine THEN tag = "Comment"
    ELSE IF ctx = InCode THEN tag \in {"Normal", "Number", Yellow, Magenta}
    ELSE tag = string_tag(ctx)

ContextsExclusive(k) ==
    LET row == row_contents[k]
        above == k > 1 /\ row_contents[k - 1].is_comment
        ctx == contexts(row.render, 0, above, NoString)
    IN /\ Len(row.highlight) = Len(row.render)
       /\ \A p \in 1..Len(row.render) : TagOfContext(row.highlight[p], ctx[p])
       /\ (\E p \in 1..Len(ctx) : ctx[p] = InLine) => ~row.is_comment

C32_ContextsExclusive == \A k \in 1..Len(row_contents) : ContextsExclusive(k)

\* The row "\"//*/" below a row that leaves a comment open: the quote and
\* the "//" are inside the comment, the "*/" ends it
C32_InsideMultiline ==
    \E k \in 2..Len(row_contents) :
        /\ row_contents[k - 1].is_comment
        /\ row_contents[k].render = <<"\"", "/", "/", "*", "/">>
        /\ row_contents[k].highlight = Repeat("MultilineComment", 5)
        /\ ~row_contents[k].is_comment

\* The row "/*" inside a string: a String, and no comment is left open
C32_InsideString ==
    /\ Len(row_contents) = 1
    /\ row_contents[1].render = <<"\"", "/", "*", "\"", "a">>
    /\ row_contents[1].highlight = <<"String", "String", "String", "String", "Normal">>
    /\ ~row_contents[1].is_comment

\* "//" inside a character literal: a CharLiteral, and no comment begins
C32_LineCommentAfterString ==
    /\ Len(row_contents) = 1
    /\ row_contents[1].render = <<"'", "/", "/", "'", "/">>
    /\ row_contents[1].highlight = <<"CharLiteral", "CharLiteral", "CharLiteral",
                                     "CharLiteral", "Normal">>

\* A quote and a multiline start token after "//": Comment to the end of
\* the line, and the flag of the row is false
C32_InsideLineComment ==
    /\ Len(row_contents) = 1
    /\ row_contents[1].render = <<"/", "/", "\"", "/", "*">>
    /\ row_contents[1].highlight = Repeat("Comment", 5)
    /\ ~row_contents[1].is_comment

-----------------------------------------------------------------------------
(* C33: the Delete key, a Right move followed by delete_char, removes only  *)
(* text at or after the cursor: at the end of the last row it leaves every  *)
(* row's raw content and the cursor where they are, and it never removes    *)
(* the character to the left of the cursor.                                 *)

\* The Delete arm of process_keypress
delete_key(o) ==
    LET m == move_cursor(o.cc, "Right", o.rows, TRUE)
    IN IF m.panic THEN [o EXCEPT !.panic = TRUE]
       ELSE delete_char([o EXCEPT !.cc = m.cc])

AtEndOfLastRow ==
    /\ cursor_controller.cursor_y = Len(row_contents) - 1
    /\ cursor_controller.cursor_x = RowLen(cursor_controller.cursor_y)

\* The rows above the cursor row, and the cursor row up to the cursor
TextBeforeCursor(rows, cc) ==
    <<SubSeq(Raw(rows), 1, cc.cursor_y),
      SubSeq(rows[cc.cursor_y + 1].row_content, 1, cc.cursor_x)>>

DeleteAfterCursor ==
    LET d == delete_key(Cur)
    IN /\ ~d.panic
       /\ cursor_controller.cursor_y < Len(d.rows)
       /\ cursor_controller.cursor_x
              <= Len(d.rows[cursor_controller.cursor_y + 1].row_content)
       /\ TextBeforeCursor(d.rows, cursor_controller)
              = TextBeforeCursor(row_contents, cursor_controller)
       /\ AtEndOfLastRow => /\ Raw(d.rows) = Raw(row_contents)
                             /\ Position(d.cc) = Position(cursor_controller)

C33_DeleteAfterCursor ==
    (Editing /\ cursor_controller.cursor_y < Len(row_contents)) => DeleteAfterCursor

\* The same with the cursor anywhere but at the end of the last row: this
\* holds
C33_DeleteAfterCursorInsideText ==
    (Editing /\ cursor_controller.cursor_y < Len(row_contents) /\ ~AtEndOfLastRow)
        => DeleteAfterCursor

\* End on the only row "a", and Delete there: the "a" left of the cursor is
\* removed and the cursor moves to column 0
C33_DeleteAtEndOfLastRow ==
    /\ Editing
    /\ edit_mode = "NORMAL"
    /\ key = <<"End", "">>
    /\ Raw(row_contents) = <<<<"a">>>>
    /\ Position(cursor_controller) = <<0, 1>>
    /\ Raw(delete_key(Cur).rows) = <<<<>>>>
    /\ Position(delete_key(Cur).cc) = <<0, 0>>

\* Delete at the end of an empty last row joins it to the row above
C33_DeleteOnEmptyLastRow ==
    /\ Editing
    /\ edit_mode = "NORMAL"
    /\ Len(row_contents) = 2
    /\ Raw(row_contents)[2] = <<>>
    /\ Position(cursor_controller) = <<1, 0>>
    /\ Len(delete_key(Cur).rows) = 1
    /\ delete_key(Cur).cc.cursor_y = 0

\* Delete before the last character of a row has removed it
C33_DeleteInsideText ==
    /\ key = <<"Delete", "in_row">>
    /\ ~crashed
    /\ dirty = 1
    /\ Raw(row_contents) = <<<<"/">>>>
    /\ Position(cursor_controller) = <<0, 1>>

====
